---- MODULE Spec2Model ----
(***************************************************************************)
(* git-diffs: the diff engine (internal/git parseDiff, internal/ui/diffview *)
(* convertToSideBySide, GetSearchableLines, renderSingleView) as a state    *)
(* machine.  Text is a sequence of one-character strings; a run of decimal  *)
(* digits is one token ("10"), converted by Atoi/Itoa.                      *)
(***************************************************************************)
EXTENDS Integers, Sequences, FiniteSets, TLC

VARIABLES
    src,        \* what git printed, line by line (the environment's choice)
    diffText,   \* the bytes handed to parseDiff
    pc,         \* "text" -> "parsed" -> "shown"
    diff,       \* *git.FileDiff returned by parseDiff (NilDiff before)
    parseRes,   \* how parseDiff ended: "none", "ok", "error", "panic"
    lines,      \* diffview.Model.lines
    flushed,    \* the (deletions, additions) arguments of every alignChanges call of the last SetDiff
    viewMode,   \* diffview.Model.viewMode
    offset,     \* diffview.Model.offset
    cursor,     \* diffview.Model.cursor
    height,     \* diffview.Model.height
    focused,    \* diffview.Model.focused
    ret,        \* the value returned by the last GetSearchableLines / View call
    fileList,   \* the filelist.Model of the application
    flLast,     \* the last operation on the file list, and the display list it replaced
    changed,    \* the last GetChangedFiles call: what git printed and what the call returned
    picker,     \* the filepicker.Model
    pkLast,     \* the last loadDiff call of the picker: its path, the repo and base then, its result
    app,        \* the app.Model fields besides fileList and diffView
    inflight,   \* the messages of the commands Update returned that are not delivered yet
    appLast     \* the last message handled by the application's Update and the command it returned

diffVars == <<src, diffText, pc, diff, parseRes, lines, flushed, viewMode, offset, cursor, height, focused, ret>>
fileListVars == <<fileList, flLast>>
gitVars == <<changed>>
pickerVars == <<picker, pkLast>>
appVars == <<app, inflight, appLast>>

\* What the operations of one component leave alone
outsideDiff == <<fileListVars, gitVars, pickerVars, appVars>>
outsideFileList == <<diffVars, gitVars, pickerVars, appVars>>
outsideGit == <<diffVars, fileListVars, pickerVars, appVars>>
outsidePicker == <<diffVars, fileListVars, gitVars, appVars>>
outsideApp == <<gitVars, pickerVars>>

vars == <<diffVars, fileListVars, gitVars, pickerVars, appVars>>

----------------------------------------------------------------------------
\* Bounds of the explored inputs
MaxBody == 2        \* body lines after the hunk header
MaxCount == 2       \* largest count written in a generated header
PaneHeight == 12    \* the pane height a WindowSizeMsg installs
MaxFiles == 2       \* changed files in a file list
MaxQuery == 1       \* characters typed into the file-list search input
FileListHeight == 6 \* the file-list height a WindowSizeMsg installs
MaxEntries == 2     \* changed files listed by one git diff --name-status
MaxStat == 1        \* largest line count printed by git diff --numstat
MaxPickerFiles == 2 \* changed files handed to the file picker
MaxPickerQuery == 1 \* characters typed into the file-picker search input
PickerHeight == 20  \* the overlay height SetSize installs
MaxParseLines == 3  \* lines of a diff text made of headers, path lines and body lines
AppHeight == 10     \* the terminal height of the application's WindowSizeMsg
MaxInFlight == 1    \* commands of the application whose message is not yet delivered
MaxHunkLines == 3   \* lines of a hunk set into the diff view without the parser
MaxVisible == 3     \* visible rows of the diff pane whose cursor is moved
MaxLoads == 2       \* selections and diff loads in flight together

----------------------------------------------------------------------------
\* git.DiffLineType
DiffLineContext == 0
DiffLineAddition == 1
DiffLineDeletion == 2
DiffLineHeader == 3

\* diffview.ViewMode
ViewBoth == 0
ViewNew == 1
ViewOld == 2

NilDiff == [OldPath |-> <<>>, NewPath |-> <<>>, Hunks |-> <<>>, nil |-> TRUE]

Max(a, b) == IF a > b THEN a ELSE b

----------------------------------------------------------------------------
\* Decimal numerals: Digits[n+1] is the text of n
Digits == <<"0", "1", "2", "3", "4", "5", "6", "7", "8", "9", "10", "11", "12", "13", "14", "15">>

Itoa(n) == Digits[n + 1]

IsNum(t) == \E i \in 1..Len(Digits) : Digits[i] = t

Atoi(t) == CHOOSE n \in 0..(Len(Digits) - 1) : Digits[n + 1] = t

----------------------------------------------------------------------------
\* strings.HasPrefix
HasPrefix(s, p) == Len(s) >= Len(p) /\ SubSeq(s, 1, Len(p)) = p

\* strings.TrimPrefix
TrimPrefix(s, p) == IF HasPrefix(s, p) THEN SubSeq(s, Len(p) + 1, Len(s)) ELSE s

\* strings.Split(text, "\n")
RECURSIVE SplitAcc(_, _, _)
SplitAcc(text, cur, acc) ==
    IF text = <<>> THEN Append(acc, cur)
    ELSE IF Head(text) = "\n" THEN SplitAcc(Tail(text), <<>>, Append(acc, cur))
    ELSE SplitAcc(Tail(text), Append(cur, Head(text)), acc)

Split(text) == SplitAcc(text, <<>>, <<>>)

\* strings.SplitN(line, " ", 2)
SplitN2(line) ==
    IF \E i \in 1..Len(line) : line[i] = " "
    THEN LET i == CHOOSE k \in 1..Len(line) : line[k] = " " /\ \A j \in 1..(k - 1) : line[j] # " "
         IN <<SubSeq(line, 1, i - 1), SubSeq(line, i + 1, Len(line))>>
    ELSE <<line>>

----------------------------------------------------------------------------
\* fmt.Sscanf with %d verbs: the values stored before the first mismatch.
\* A space of the format matches one or more spaces of the input or its end;
\* %d skips leading spaces, takes an optional sign, then a digit run.
RECURSIVE SkipSpace(_)
SkipSpace(inp) == IF inp # <<>> /\ Head(inp) = " " THEN SkipSpace(Tail(inp)) ELSE inp

ScanInt(inp0) ==
    LET inp == SkipSpace(inp0)
        signed == inp # <<>> /\ Head(inp) \in {"+", "-"}
        rest == IF signed THEN Tail(inp) ELSE inp
    IN IF rest # <<>> /\ IsNum(Head(rest))
       THEN [ok |-> TRUE,
             val |-> IF signed /\ Head(inp) = "-" THEN 0 - Atoi(Head(rest)) ELSE Atoi(Head(rest)),
             rest |-> Tail(rest)]
       ELSE [ok |-> FALSE, val |-> 0, rest |-> inp]

RECURSIVE SscanfAcc(_, _, _)
SscanfAcc(inp, fmt, acc) ==
    IF fmt = <<>> THEN acc
    ELSE IF Head(fmt) = "%d"
    THEN LET r == ScanInt(inp)
         IN IF r.ok THEN SscanfAcc(r.rest, Tail(fmt), Append(acc, r.val)) ELSE acc
    ELSE IF Head(fmt) = " "
    THEN IF inp = <<>> THEN SscanfAcc(inp, Tail(fmt), acc)
         ELSE IF Head(inp) = " " THEN SscanfAcc(SkipSpace(inp), Tail(fmt), acc)
         ELSE acc
    ELSE IF inp # <<>> /\ Head(inp) = Head(fmt) THEN SscanfAcc(Tail(inp), Tail(fmt), acc)
    ELSE acc

Sscanf(inp, fmt) == SscanfAcc(inp, fmt, <<>>)

\* What the k-th pointer argument holds after the call: the scanned value, or its old one
Stored(vals, k, old) == IF Len(vals) >= k THEN vals[k] ELSE old

\* "@@ -%d,%d +%d,%d @@", "@@ -%d +%d,%d @@", "@@ -%d,%d +%d @@"
FmtFull == <<"@", "@", " ", "-", "%d", ",", "%d", " ", "+", "%d", ",", "%d", " ", "@", "@">>
FmtNoOldCount == <<"@", "@", " ", "-", "%d", " ", "+", "%d", ",", "%d", " ", "@", "@">>
FmtNoNewCount == <<"@", "@", " ", "-", "%d", ",", "%d", " ", "+", "%d", " ", "@", "@">>

\* parseDiff: the four locals oldStart, oldCount, newStart, newCount, all 0 at first
NoNumbers == [OldStart |-> 0, OldCount |-> 0, NewStart |-> 0, NewCount |-> 0]

\* Sscanf(line, "@@ -%d,%d +%d,%d @@", &oldStart, &oldCount, &newStart, &newCount)
StoreFull(h, vals) ==
    [OldStart |-> Stored(vals, 1, h.OldStart), OldCount |-> Stored(vals, 2, h.OldCount),
     NewStart |-> Stored(vals, 3, h.NewStart), NewCount |-> Stored(vals, 4, h.NewCount)]

\* Sscanf(line, "@@ -%d +%d,%d @@", &oldStart, &newStart, &newCount); oldCount = 1
StoreNoOldCount(h, vals) ==
    [OldStart |-> Stored(vals, 1, h.OldStart), OldCount |-> 1,
     NewStart |-> Stored(vals, 2, h.NewStart), NewCount |-> Stored(vals, 3, h.NewCount)]

\* Sscanf(line, "@@ -%d,%d +%d @@", &oldStart, &oldCount, &newStart); newCount = 1
StoreNoNewCount(h, vals) ==
    [OldStart |-> Stored(vals, 1, h.OldStart), OldCount |-> Stored(vals, 2, h.OldCount),
     NewStart |-> Stored(vals, 3, h.NewStart), NewCount |-> 1]

\* if oldCount == 0 { ... }
RetryNoOldCount(line, h) == IF h.OldCount = 0 THEN StoreNoOldCount(h, Sscanf(line, FmtNoOldCount)) ELSE h

\* if newCount == 0 { ... }
RetryNoNewCount(line, h) == IF h.NewCount = 0 THEN StoreNoNewCount(h, Sscanf(line, FmtNoNewCount)) ELSE h

\* parseDiff, the numbers of a hunk header line
ParseHunkHeader(line) ==
    RetryNoNewCount(line, RetryNoOldCount(line, StoreFull(NoNumbers, Sscanf(line, FmtFull))))

----------------------------------------------------------------------------
\* git.DiffLine and git.DiffHunk values
\* A DiffLine whose two numbers are stored in each other's field
DiffLineSwapped(type, content, oldNum, newNum) ==
    [Type |-> type, Content |-> content, OldLineNum |-> newNum, NewLineNum |-> oldNum]

DiffLine(type, content, oldNum, newNum) ==
    [Type |-> type, Content |-> content, OldLineNum |-> oldNum, NewLineNum |-> newNum]

NoHunk == [OldStart |-> 0, OldCount |-> 0, NewStart |-> 0, NewCount |-> 0, Lines |-> <<>>]

\* line[i] of a Go string: an index outside the string panics
ByteAt(line, i) ==
    IF i >= 0 /\ i < Len(line) THEN [ok |-> TRUE, c |-> line[i + 1]] ELSE [ok |-> FALSE, c |-> ""]

\* The local variables of a parseDiff that starts with a hunk open
ParseStartOpen ==
    [OldPath |-> <<>>, NewPath |-> <<>>, Hunks |-> <<>>, open |-> TRUE, cur |-> NoHunk,
     oldLineNum |-> 0, newLineNum |-> 0, panic |-> FALSE]

\* parseDiff: the local variables before the first line
ParseStart ==
    [OldPath |-> <<>>, NewPath |-> <<>>, Hunks |-> <<>>, open |-> FALSE, cur |-> NoHunk,
     oldLineNum |-> 0, newLineNum |-> 0, panic |-> FALSE]

\* parseDiff: a "---" or "+++" line sets a path when the line has a space
ParsePathLine(st, line, isOld) ==
    LET parts == SplitN2(line)
    IN IF Len(parts) > 1
       THEN IF isOld THEN [st EXCEPT !.OldPath = TrimPrefix(parts[2], <<"a", "/">>)]
            ELSE [st EXCEPT !.NewPath = TrimPrefix(parts[2], <<"b", "/">>)]
       ELSE st

\* A "@@" line that opens the next hunk and lets the line numbers run on
OpenHunkKeepsCursors(st, line, h) ==
    [st EXCEPT !.Hunks = IF st.open THEN Append(st.Hunks, st.cur) ELSE st.Hunks,
               !.open = TRUE,
               !.cur = [OldStart |-> h.OldStart, OldCount |-> h.OldCount,
                        NewStart |-> h.NewStart, NewCount |-> h.NewCount,
                        Lines |-> <<DiffLine(DiffLineHeader, line, 0, 0)>>]]

\* parseDiff: a "@@" line closes the open hunk and opens the next with the numbers h
OpenHunk(st, line, h) ==
    [st EXCEPT !.Hunks = IF st.open THEN Append(st.Hunks, st.cur) ELSE st.Hunks,
               !.open = TRUE,
               !.cur = [OldStart |-> h.OldStart, OldCount |-> h.OldCount,
                        NewStart |-> h.NewStart, NewCount |-> h.NewCount,
                        Lines |-> <<DiffLine(DiffLineHeader, line, 0, 0)>>],
               !.oldLineNum = h.OldStart,
               !.newLineNum = h.NewStart]

ParseHeaderLine(st, line) == OpenHunk(st, line, ParseHunkHeader(line))

AppendLine(st, dl) == [st EXCEPT !.cur.Lines = Append(st.cur.Lines, dl)]

\* parseDiff's body-line step without the len(line) == 0 case: line[0] on an empty line
ParseBodyLineNoEmptyCase(st, line) ==
    IF ~ByteAt(line, 0).ok THEN [st EXCEPT !.panic = TRUE]
    ELSE IF line[1] = "+"
    THEN [AppendLine(st, DiffLine(DiffLineAddition, Tail(line), 0, st.newLineNum))
            EXCEPT !.newLineNum = st.newLineNum + 1]
    ELSE IF line[1] = "-"
    THEN [AppendLine(st, DiffLine(DiffLineDeletion, Tail(line), st.oldLineNum, 0))
            EXCEPT !.oldLineNum = st.oldLineNum + 1]
    ELSE IF line[1] = " "
    THEN [AppendLine(st, DiffLine(DiffLineContext, Tail(line), st.oldLineNum, st.newLineNum))
            EXCEPT !.oldLineNum = st.oldLineNum + 1, !.newLineNum = st.newLineNum + 1]
    ELSE st

\* parseDiff: a line inside a hunk, by its first byte
ParseBodyLine(st, line) ==
    IF Len(line) = 0
    THEN [AppendLine(st, DiffLine(DiffLineContext, <<>>, st.oldLineNum, st.newLineNum))
            EXCEPT !.oldLineNum = st.oldLineNum + 1, !.newLineNum = st.newLineNum + 1]
    ELSE LET b == ByteAt(line, 0)
             content == Tail(line)
         IN IF ~b.ok THEN [st EXCEPT !.panic = TRUE]
            ELSE IF b.c = "+"
            THEN [AppendLine(st, DiffLine(DiffLineAddition, content, 0, st.newLineNum))
                    EXCEPT !.newLineNum = st.newLineNum + 1]
            ELSE IF b.c = "-"
            THEN [AppendLine(st, DiffLine(DiffLineDeletion, content, st.oldLineNum, 0))
                    EXCEPT !.oldLineNum = st.oldLineNum + 1]
            ELSE IF b.c = " "
            THEN [AppendLine(st, DiffLine(DiffLineContext, content, st.oldLineNum, st.newLineNum))
                    EXCEPT !.oldLineNum = st.oldLineNum + 1, !.newLineNum = st.newLineNum + 1]
            ELSE st

\* parseDiff: one iteration of the loop over the lines
ParseLine(st, line) ==
    IF st.panic THEN st
    ELSE IF HasPrefix(line, <<"-", "-", "-">>) THEN ParsePathLine(st, line, TRUE)
    ELSE IF HasPrefix(line, <<"+", "+", "+">>) THEN ParsePathLine(st, line, FALSE)
    ELSE IF HasPrefix(line, <<"@", "@">>) THEN ParseHeaderLine(st, line)
    ELSE IF ~st.open THEN st
    ELSE ParseBodyLine(st, line)

RECURSIVE ParseLines(_, _)
ParseLines(st, ls) == IF ls = <<>> THEN st ELSE ParseLines(ParseLine(st, Head(ls)), Tail(ls))

\* parseDiff: after the loop the open hunk is appended; the call has no error return
ParseEnd(st) ==
    [diff |-> [OldPath |-> st.OldPath, NewPath |-> st.NewPath,
               Hunks |-> IF st.open THEN Append(st.Hunks, st.cur) ELSE st.Hunks,
               nil |-> FALSE],
     res |-> IF st.panic THEN "panic" ELSE "ok"]

\* parseDiff
parseDiff(text) == ParseEnd(ParseLines(ParseStart, Split(text)))

----------------------------------------------------------------------------
\* diffview.SideBySideLine
Row(oldNum, oldContent, oldType, newNum, newContent, newType) ==
    [OldLineNum |-> oldNum, OldContent |-> oldContent, OldType |-> oldType,
     NewLineNum |-> newNum, NewContent |-> newContent, NewType |-> newType]

\* alignChanges with the shorter buffer deciding the number of rows
alignChangesShort(deletions, additions) ==
    [i \in 1..(IF Len(deletions) < Len(additions) THEN Len(deletions) ELSE Len(additions)) |->
        Row(deletions[i].OldLineNum, deletions[i].Content, DiffLineDeletion,
            additions[i].NewLineNum, additions[i].Content, DiffLineAddition)]

\* alignChanges: deletion i beside addition i
alignChanges(deletions, additions) ==
    [i \in 1..Max(Len(deletions), Len(additions)) |->
        Row(IF i <= Len(deletions) THEN deletions[i].OldLineNum ELSE 0,
            IF i <= Len(deletions) THEN deletions[i].Content ELSE <<>>,
            IF i <= Len(deletions) THEN DiffLineDeletion ELSE DiffLineContext,
            IF i <= Len(additions) THEN additions[i].NewLineNum ELSE 0,
            IF i <= Len(additions) THEN additions[i].Content ELSE <<>>,
            IF i <= Len(additions) THEN DiffLineAddition ELSE DiffLineContext)]

\* convertToSideBySide: the rows an alignChanges call returned are appended; the
\* call (its two arguments and its result) is logged
AppendAligned(a, rows) ==
    [a EXCEPT !.rows = a.rows \o rows,
              !.calls = Append(a.calls, [deletions |-> a.deletions, additions |-> a.additions, rows |-> rows]),
              !.deletions = <<>>,
              !.additions = <<>>]

\* convertToSideBySide: the flush of the buffers ("Flush pending changes")
Flush(a) == AppendAligned(a, alignChanges(a.deletions, a.additions))

\* convertToSideBySide, case DiffLineContext: the row of the line, after the flush
ContextRow(acc, line) ==
    [acc EXCEPT !.rows = Append(acc.rows, Row(line.OldLineNum, line.Content, DiffLineContext,
                                             line.NewLineNum, line.Content, DiffLineContext))]

\* convertToSideBySide: the switch on one line of a hunk; acc holds the rows so
\* far, the two buffers, and the arguments of each alignChanges call made
ConvertLine(acc, line) ==
    IF line.Type = DiffLineHeader
    THEN [acc EXCEPT !.rows = Append(acc.rows,
            Row(0, line.Content, DiffLineHeader, 0, line.Content, DiffLineHeader))]
    ELSE IF line.Type = DiffLineContext
    THEN ContextRow(Flush(acc), line)
    ELSE IF line.Type = DiffLineDeletion
    THEN [acc EXCEPT !.deletions = Append(acc.deletions, line)]
    ELSE IF line.Type = DiffLineAddition
    THEN [acc EXCEPT !.additions = Append(acc.additions, line)]
    ELSE acc

RECURSIVE ConvertLines(_, _)
ConvertLines(acc, ls) == IF ls = <<>> THEN acc ELSE ConvertLines(ConvertLine(acc, Head(ls)), Tail(ls))

\* convertToSideBySide: one hunk, with the flush after its last line
ConvertHunk(acc, hunk) ==
    Flush(ConvertLines([acc EXCEPT !.deletions = <<>>, !.additions = <<>>], hunk.Lines))

RECURSIVE ConvertHunks(_, _)
ConvertHunks(acc, hs) == IF hs = <<>> THEN acc ELSE ConvertHunks(ConvertHunk(acc, Head(hs)), Tail(hs))

ConvertStart == [rows |-> <<>>, deletions |-> <<>>, additions |-> <<>>, calls |-> <<>>]

\* convertToSideBySide
convertToSideBySide(d) == IF d.nil THEN ConvertStart ELSE ConvertHunks(ConvertStart, d.Hunks)

----------------------------------------------------------------------------
\* lineTypeToString
lineTypeToString(t) ==
    IF t = DiffLineAddition THEN "add"
    ELSE IF t = DiffLineDeletion THEN "del"
    ELSE IF t = DiffLineHeader THEN "header"
    ELSE "context"

\* diffview.SearchableLine; i is the 0-based index of the row
SearchableLine(num, content, type, i) ==
    [LineNum |-> num, Content |-> content, Type |-> lineTypeToString(type), OrigIdx |-> i]

\* GetSearchableLines, case ViewBoth, without the test that suppresses an identical new side
SearchBothNoDedup(line, i) ==
    (IF line.OldContent # <<>> \/ line.OldLineNum > 0
     THEN <<SearchableLine(line.OldLineNum, line.OldContent, line.OldType, i)>>
     ELSE <<>>)
    \o
    (IF line.NewContent # <<>> \/ line.NewLineNum > 0
     THEN <<SearchableLine(line.NewLineNum, line.NewContent, line.NewType, i)>>
     ELSE <<>>)

\* GetSearchableLines, case ViewBoth: what one row appends
SearchBoth(line, i) ==
    (IF line.OldContent # <<>> \/ line.OldLineNum > 0
     THEN <<SearchableLine(line.OldLineNum, line.OldContent, line.OldType, i)>>
     ELSE <<>>)
    \o
    (IF (line.NewContent # <<>> \/ line.NewLineNum > 0)
        /\ (line.NewContent # line.OldContent \/ line.NewType # line.OldType)
     THEN <<SearchableLine(line.NewLineNum, line.NewContent, line.NewType, i)>>
     ELSE <<>>)

\* GetSearchableLines, case ViewNew, falling back to the old side of a row without a new side
SearchNewFallback(line, i) ==
    IF line.NewType = DiffLineAddition \/ line.NewLineNum > 0 \/ line.NewContent # <<>>
    THEN <<SearchableLine(line.NewLineNum, line.NewContent, line.NewType, i)>>
    ELSE <<SearchableLine(line.OldLineNum, line.OldContent, line.OldType, i)>>

\* GetSearchableLines, case ViewNew
SearchNew(line, i) ==
    IF line.NewType = DiffLineAddition \/ line.NewType = DiffLineContext \/ line.NewType = DiffLineHeader
    THEN <<SearchableLine(line.NewLineNum, line.NewContent, line.NewType, i)>>
    ELSE <<>>

\* GetSearchableLines, case ViewOld
SearchOld(line, i) ==
    IF line.OldType = DiffLineDeletion \/ line.OldType = DiffLineContext \/ line.OldType = DiffLineHeader
    THEN <<SearchableLine(line.OldLineNum, line.OldContent, line.OldType, i)>>
    ELSE <<>>

SearchRow(line, i, mode) ==
    IF mode = ViewBoth THEN SearchBoth(line, i)
    ELSE IF mode = ViewNew THEN SearchNew(line, i)
    ELSE IF mode = ViewOld THEN SearchOld(line, i)
    ELSE <<>>

RECURSIVE SearchFrom(_, _, _, _)
SearchFrom(ls, i, mode, acc) ==
    IF i >= Len(ls) THEN acc
    ELSE SearchFrom(ls, i + 1, mode, acc \o SearchRow(ls[i + 1], i, mode))

\* GetSearchableLines
GetSearchableLines(ls, mode) == SearchFrom(ls, 0, mode, <<>>)

----------------------------------------------------------------------------
\* visibleLines
visibleLines(h) == IF h - 6 < 1 THEN 1 ELSE h - 6

\* renderSingleView: the line a row shows with showNew, or skip ("continue")
SingleNew(line) ==
    IF line.NewType = DiffLineAddition \/ line.NewType = DiffLineContext \/ line.NewType = DiffLineHeader
    THEN [skip |-> FALSE, lineNum |-> line.NewLineNum, content |-> line.NewContent, lineType |-> line.NewType]
    ELSE IF line.OldType = DiffLineContext \/ line.OldType = DiffLineHeader
    THEN [skip |-> FALSE, lineNum |-> line.NewLineNum, content |-> line.OldContent, lineType |-> line.OldType]
    ELSE [skip |-> TRUE, lineNum |-> 0, content |-> <<>>, lineType |-> DiffLineContext]

\* renderSingleView: the line a row shows without showNew, or skip
SingleOld(line) ==
    IF line.OldType = DiffLineDeletion \/ line.OldType = DiffLineContext \/ line.OldType = DiffLineHeader
    THEN [skip |-> FALSE, lineNum |-> line.OldLineNum, content |-> line.OldContent, lineType |-> line.OldType]
    ELSE IF line.NewType = DiffLineContext \/ line.NewType = DiffLineHeader
    THEN [skip |-> FALSE, lineNum |-> line.OldLineNum, content |-> line.NewContent, lineType |-> line.NewType]
    ELSE [skip |-> TRUE, lineNum |-> 0, content |-> <<>>, lineType |-> DiffLineContext]

\* renderSingleView: the loop over m.lines with its skipped and displayedCount counters
RECURSIVE SingleFrom(_, _, _, _, _, _, _, _)
SingleFrom(ls, origIdx, showNew, off, visible, cur, skipped, out) ==
    IF origIdx >= Len(ls) THEN out
    ELSE LET p == IF showNew THEN SingleNew(ls[origIdx + 1]) ELSE SingleOld(ls[origIdx + 1])
         IN IF p.skip THEN SingleFrom(ls, origIdx + 1, showNew, off, visible, cur, skipped, out)
            ELSE IF skipped < off THEN SingleFrom(ls, origIdx + 1, showNew, off, visible, cur, skipped + 1, out)
            ELSE IF Len(out) >= visible THEN out
            ELSE SingleFrom(ls, origIdx + 1, showNew, off, visible, cur, skipped,
                            Append(out, [lineNum |-> p.lineNum, content |-> p.content,
                                         lineType |-> p.lineType, origIdx |-> origIdx,
                                         isCursor |-> origIdx = cur]))

\* renderSingleView: the content lines drawn
renderSingleView(ls, off, visible, cur, showNew) == SingleFrom(ls, 0, showNew, off, visible, cur, 0, <<>>)

\* renderBothView: the rows drawn, m.offset up to end
renderBothView(ls, off, visible) ==
    LET end == IF off + visible > Len(ls) THEN Len(ls) ELSE off + visible
    IN [k \in 1..Max(end - off, 0) |-> [row |-> ls[off + k], origIdx |-> off + k - 1]]

\* View: the content lines of the pane in the current view mode
View(d, ls, mode, off, h, cur, foc) ==
    IF d.nil \/ Len(ls) = 0 THEN <<>>
    ELSE IF mode = ViewBoth THEN renderBothView(ls, off, visibleLines(h))
    ELSE IF mode = ViewNew THEN renderSingleView(ls, off, visibleLines(h), IF foc THEN cur ELSE 0 - 1, TRUE)
    ELSE renderSingleView(ls, off, visibleLines(h), IF foc THEN cur ELSE 0 - 1, FALSE)

\* A JumpToLine that moves nothing
JumpToLineKeepsOffset(ls, h, cur, off, idx) == [cursor |-> cur, offset |-> off]

\* JumpToLine: the offset that centers row idx, clamped to the rows
Centered(ls, h, idx) ==
    LET o == idx - (visibleLines(h) \div 2)
    IN IF o < 0 THEN 0
       ELSE IF o > Len(ls) - visibleLines(h)
            THEN (IF Len(ls) - visibleLines(h) < 0 THEN 0 ELSE Len(ls) - visibleLines(h))
            ELSE o

\* JumpToLine: the cursor and offset it leaves; an index outside the rows is ignored
JumpToLine(ls, h, cur, off, idx) ==
    IF idx < 0 \/ idx >= Len(ls) THEN [cursor |-> cur, offset |-> off]
    ELSE [cursor |-> idx, offset |-> Centered(ls, h, idx)]

\* searchoverlay Update, key enter: the OrigIdx of the chosen match
EnterOrigIdx(overlayLines, idx) == overlayLines[idx + 1].OrigIdx

----------------------------------------------------------------------------
\* The text git diff prints, as the lines it is made of.  A line is described
\* by its kind k, the numbers a,b,c,d of a hunk header and the content that
\* follows the marker of a body line.
SrcLine(k, a, b, c, d, content) == [k |-> k, a |-> a, b |-> b, c |-> c, d |-> d, content |-> content]

HdrFull(a, b, c, d) == SrcLine("full", a, b, c, d, <<>>)          \* @@ -a,b +c,d @@
HdrNoOldCount(a, c, d) == SrcLine("noOldCount", a, 1, c, d, <<>>) \* @@ -a +c,d @@
HdrNoNewCount(a, b, c) == SrcLine("noNewCount", a, b, c, 1, <<>>) \* @@ -a,b +c @@
HdrNoCounts(a, c) == SrcLine("noCounts", a, 1, c, 1, <<>>)        \* @@ -a +c @@
HdrBad == SrcLine("badHeader", 0, 0, 0, 0, <<>>)                  \* @@ x
Body(k, content) == SrcLine(k, 0, 0, 0, 0, content)

HeaderKinds == {"full", "noOldCount", "noNewCount", "noCounts", "badHeader"}

\* The characters of one line
LineText(l) ==
    IF l.k = "full"
    THEN <<"@", "@", " ", "-", Itoa(l.a), ",", Itoa(l.b), " ", "+", Itoa(l.c), ",", Itoa(l.d), " ", "@", "@">>
    ELSE IF l.k = "noOldCount"
    THEN <<"@", "@", " ", "-", Itoa(l.a), " ", "+", Itoa(l.c), ",", Itoa(l.d), " ", "@", "@">>
    ELSE IF l.k = "noNewCount"
    THEN <<"@", "@", " ", "-", Itoa(l.a), ",", Itoa(l.b), " ", "+", Itoa(l.c), " ", "@", "@">>
    ELSE IF l.k = "noCounts"
    THEN <<"@", "@", " ", "-", Itoa(l.a), " ", "+", Itoa(l.c), " ", "@", "@">>
    ELSE IF l.k = "badHeader" THEN <<"@", "@", " ", "x">>
    ELSE IF l.k = "context" THEN <<" ">> \o l.content
    ELSE IF l.k = "deletion" THEN <<"-">> \o l.content
    ELSE IF l.k = "addition" THEN <<"+">> \o l.content
    ELSE IF l.k = "noNewline" THEN <<"\\", " ", "N">>
    ELSE IF l.k = "other" THEN <<"d">> \o l.content
    ELSE IF l.k = "oldPath" THEN <<"-", "-", "-", " ", "a", "/">> \o l.content
    ELSE IF l.k = "newPath" THEN <<"+", "+", "+", " ", "b", "/">> \o l.content
    ELSE <<>>

\* The lines joined by "\n"; nl: the text ends with a newline, as git's output does
RECURSIVE JoinLines(_)
JoinLines(ls) ==
    IF ls = <<>> THEN <<>>
    ELSE IF Len(ls) = 1 THEN LineText(ls[1])
    ELSE LineText(ls[1]) \o <<"\n">> \o JoinLines(Tail(ls))

TextOf(s) == JoinLines(s.lines) \o (IF s.nl /\ s.lines # <<>> THEN <<"\n">> ELSE <<>>)

\* Body lines of the generated inputs
BodyAlphabet ==
    { Body("context", <<"a">>), Body("empty", <<>>),
      Body("deletion", <<"a">>), Body("deletion", <<>>),
      Body("addition", <<"b">>), Body("addition", <<>>),
      Body("noNewline", <<>>), Body("other", <<>>) }

SeqsUpTo(S, n) == UNION { [1..k -> S] : k \in 0..n }

CountKind(ls, K) == Cardinality({ i \in 1..Len(ls) : ls[i].k \in K })

\* The header git prints for a body: counts of old-side and new-side lines,
\* start 0 beside a count of 0
HeaderFor(body) ==
    LET b == CountKind(body, {"context", "empty", "deletion"})
        d == CountKind(body, {"context", "empty", "addition"})
    IN HdrFull(IF b = 0 THEN 0 ELSE 1, b, IF d = 0 THEN 0 ELSE 1, d)

\* Inputs: every form of hunk header over small numbers, alone or before one addition
Starts == {0, 3}

HeaderInputs ==
    LET hdrs == { HdrFull(a, b, c, d) : a \in Starts, b \in 0..MaxCount, c \in Starts, d \in 0..MaxCount }
                \cup { HdrNoOldCount(a, c, d) : a \in Starts, c \in Starts, d \in 0..MaxCount }
                \cup { HdrNoNewCount(a, b, c) : a \in Starts, b \in 0..MaxCount, c \in Starts }
                \cup { HdrNoCounts(a, c) : a \in Starts, c \in Starts }
                \cup { HdrBad }
    IN { [lines |-> <<h>> \o t, nl |-> FALSE] : h \in hdrs, t \in {<<>>, <<Body("addition", <<"b">>)>>} }

\* Inputs: one hunk, every body of at most MaxBody lines, under the header git
\* prints for it and under a header without numbers
BodyInputs ==
    UNION { { [lines |-> <<HeaderFor(body)>> \o body, nl |-> nl] : nl \in BOOLEAN }
            \cup { [lines |-> <<HdrBad>> \o body, nl |-> FALSE] } :
            body \in SeqsUpTo(BodyAlphabet, MaxBody) }

\* Inputs: @@ -10,3 +10,4 @@, a context line, two deletions, three additions, a context line,
\* with and without a final newline
ScenarioKinds == <<"context", "deletion", "deletion", "addition", "addition", "addition", "context">>

ScenarioInputs ==
    { [lines |-> <<HdrFull(10, 3, 10, 4)>> \o [i \in 1..7 |-> Body(ScenarioKinds[i], cs[i])], nl |-> nl] :
        cs \in { c \in [1..7 -> {<<"a">>, <<"b">>}] : c[1] = <<"a">> /\ c[7] = <<"a">> /\ c[3] # c[2] /\ c[5] # c[4] },
        nl \in BOOLEAN }

\* Inputs: no header at all
BareInputs ==
    { [lines |-> body, nl |-> nl] : body \in SeqsUpTo(BodyAlphabet, 1), nl \in BOOLEAN }

Inputs == HeaderInputs \cup BodyInputs \cup ScenarioInputs \cup BareInputs

\* Inputs of the parser on its own: every text of at most MaxParseLines lines
\* out of two hunk headers, the two file-path lines, and body lines, among them
\* a deleted line "-- x" and an added line "++ y"
ParseAlphabet ==
    { HdrFull(3, 2, 5, 2), HdrBad,
      Body("oldPath", <<"x">>), Body("newPath", <<"y">>),
      Body("context", <<"a">>),
      Body("deletion", <<"a">>), Body("deletion", <<"-", "-", " ", "x">>),
      Body("addition", <<"b">>), Body("addition", <<"+", "+", " ", "y">>),
      Body("other", <<>>) }

ParseInputs == { [lines |-> ls, nl |-> nl] : ls \in SeqsUpTo(ParseAlphabet, MaxParseLines), nl \in BOOLEAN }

NoRet == [op |-> "none", mode |-> ViewBoth, out |-> <<>>]

----------------------------------------------------------------------------
\* The file list (internal/ui/filelist)

\* filelist.ViewMode
ViewFolder == 0
ViewType == 1
ViewRaw == 2

ChangedFile(status, path) == [Status |-> status, Path |-> path]
NoFile == [Status |-> "", Path |-> <<>>]

DisplayItem(isHeader, header, file) == [IsHeader |-> isHeader, Header |-> header, File |-> file]
FileItem(f) == DisplayItem(FALSE, <<>>, f)
FileItems(fs) == [i \in 1..Len(fs) |-> FileItem(fs[i])]

\* The characters of the paths in byte order, as sort.Strings compares them
CharOrder == <<".", "/", "a", "b", "c", "d">>
Ord(c) == CHOOSE i \in 1..Len(CharOrder) : CharOrder[i] = c

RECURSIVE LessStr(_, _)
LessStr(s, t) ==
    IF t = <<>> THEN FALSE
    ELSE IF s = <<>> THEN TRUE
    ELSE IF Head(s) = Head(t) THEN LessStr(Tail(s), Tail(t))
    ELSE Ord(Head(s)) < Ord(Head(t))

\* The least string of a set
MinStr(S) == CHOOSE x \in S : \A y \in S \ {x} : LessStr(x, y)

\* sort.Strings on a list without repetitions, given as the set of its elements
RECURSIVE SortStrings(_)
SortStrings(S) == IF S = {} THEN <<>> ELSE <<MinStr(S)>> \o SortStrings(S \ {MinStr(S)})

\* Every order of the elements of a set
Orders(S) == { o \in [1..Cardinality(S) -> S] : \A i, j \in 1..Cardinality(S) : o[i] = o[j] => i = j }

\* filepath.Dir of a relative slash-separated path
LastSlash(p) ==
    IF \E i \in 1..Len(p) : p[i] = "/"
    THEN CHOOSE i \in 1..Len(p) : p[i] = "/" /\ \A j \in (i + 1)..Len(p) : p[j] # "/"
    ELSE 0
Dir(p) ==
    IF LastSlash(p) = 0 THEN <<".">>
    ELSE IF LastSlash(p) = 1 THEN <<"/">>
    ELSE SubSeq(p, 1, LastSlash(p) - 1)

\* buildFolderView: the key a file is grouped under
FolderOf(f) == IF Dir(f.Path) = <<".">> THEN <<"/">> ELSE Dir(f.Path)

FolderSet(files) == { FolderOf(files[i]) : i \in 1..Len(files) }

\* buildFolderView: the orders the folders can come out in, were the map's keys ranged over
FolderOrdersOfMap(files) == Orders(FolderSet(files))

\* buildFolderView: folderOrder after sort.Strings
FolderOrders(files) == { SortStrings(FolderSet(files)) }

InFolder(files, dir) == SelectSeq(files, LAMBDA f : FolderOf(f) = dir)

RECURSIVE FolderItems(_, _)
FolderItems(files, order) ==
    IF order = <<>> THEN <<>>
    ELSE <<DisplayItem(TRUE, Head(order), NoFile)>> \o FileItems(InFolder(files, Head(order)))
         \o FolderItems(files, Tail(order))

\* buildFolderView: the display lists it can produce
buildFolderView(files) == { FolderItems(files, o) : o \in FolderOrders(files) }

\* buildTypeView: a group that keeps its header when it has no member
TypeGroupAlways(name, members) ==
    <<DisplayItem(TRUE, <<name, " ", "(", Itoa(Len(members)), ")">>, NoFile)>> \o FileItems(members)

\* buildTypeView: the bucket of a status
TypeBucket(status) == IF status \in {"M", "A", "D"} THEN status ELSE "M"

OfType(files, status) == SelectSeq(files, LAMBDA f : TypeBucket(f.Status) = status)

\* buildTypeView: one group, header "<name> (<count>)" and members, nothing when empty
TypeGroup(name, members) ==
    IF Len(members) > 0
    THEN <<DisplayItem(TRUE, <<name, " ", "(", Itoa(Len(members)), ")">>, NoFile)>> \o FileItems(members)
    ELSE <<>>

buildTypeView(files) ==
    TypeGroup("Modified", OfType(files, "M")) \o TypeGroup("Added", OfType(files, "A"))
    \o TypeGroup("Deleted", OfType(files, "D"))

\* buildRawView that lists the files last to first
buildRawViewReversed(files) == [i \in 1..Len(files) |-> FileItem(files[Len(files) + 1 - i])]

buildRawView(files) == FileItems(files)

\* fuzzy.Find matches a path that holds the characters of the query in order
RECURSIVE IsSubsequence(_, _)
IsSubsequence(q, p) ==
    IF q = <<>> THEN TRUE
    ELSE IF p = <<>> THEN FALSE
    ELSE IF Head(q) = Head(p) THEN IsSubsequence(Tail(q), Tail(p))
    ELSE IsSubsequence(q, Tail(p))

\* fuzzy.Find: the matching files in rank order; the rank is the library's, any order here
FuzzyFind(query, files) ==
    Orders({ files[i] : i \in { k \in 1..Len(files) : IsSubsequence(query, files[k].Path) } })

\* rebuildDisplayItems: the files handed to the builder
Filtered(m) == IF m.searchQuery # <<>> THEN FuzzyFind(m.searchQuery, m.files) ELSE {m.files}

Build(mode, files) ==
    IF mode = ViewFolder THEN buildFolderView(files)
    ELSE IF mode = ViewType THEN {buildTypeView(files)}
    ELSE IF mode = ViewRaw THEN {buildRawView(files)}
    ELSE {<<>>}

\* rebuildDisplayItems: the models it can leave
rebuildDisplayItems(m) ==
    UNION { { [m EXCEPT !.displayItems = items] : items \in Build(m.viewMode, fs) } : fs \in Filtered(m) }

\* filelist.New
FileListNew ==
    [files |-> <<>>, displayItems |-> <<>>, cursor |-> 0, offset |-> 0, height |-> 0,
     focused |-> FALSE, selected |-> 0 - 1, viewMode |-> ViewFolder, searching |-> FALSE,
     searchInput |-> <<>>, searchQuery |-> <<>>]

flVisibleLines(m) ==
    IF m.height - (IF m.searching THEN 5 ELSE 4) < 1 THEN 1
    ELSE m.height - (IF m.searching THEN 5 ELSE 4)

HasFile(items) == \E i \in 1..Len(items) : ~items[i].IsHeader
FirstFile(items) == CHOOSE i \in 1..Len(items) : ~items[i].IsHeader /\ \A j \in 1..(i - 1) : items[j].IsHeader

\* findFirstFile, and the same loop in SetFiles and after a query change
findFirstFile(m) ==
    IF HasFile(m.displayItems)
    THEN [m EXCEPT !.cursor = FirstFile(m.displayItems) - 1, !.selected = FirstFile(m.displayItems) - 1]
    ELSE m

\* findNearestFile
FileAtOrAfter(items, c) == { i \in c..(Len(items) - 1) : ~items[i + 1].IsHeader }
FileAtOrBefore(items, c) == { i \in 0..c : ~items[i + 1].IsHeader }
Least(S) == CHOOSE x \in S : \A y \in S : x <= y
Greatest(S) == CHOOSE x \in S : \A y \in S : x >= y

findNearestFile(m) ==
    IF m.cursor < 0 \/ m.cursor >= Len(m.displayItems) THEN m
    ELSE IF ~m.displayItems[m.cursor + 1].IsHeader THEN [m EXCEPT !.selected = m.cursor]
    ELSE IF FileAtOrAfter(m.displayItems, m.cursor) # {}
    THEN [m EXCEPT !.cursor = Least(FileAtOrAfter(m.displayItems, m.cursor)),
                   !.selected = Least(FileAtOrAfter(m.displayItems, m.cursor))]
    ELSE IF FileAtOrBefore(m.displayItems, m.cursor) # {}
    THEN [m EXCEPT !.cursor = Greatest(FileAtOrBefore(m.displayItems, m.cursor)),
                   !.selected = Greatest(FileAtOrBefore(m.displayItems, m.cursor))]
    ELSE m

\* moveCursor: the cursor clamped to the list
Clamped(m, c) ==
    IF (IF c < 0 THEN 0 ELSE c) >= Len(m.displayItems) THEN Len(m.displayItems) - 1
    ELSE (IF c < 0 THEN 0 ELSE c)

\* moveCursor: one step further over a header
SkipHeader(m, delta, c) ==
    IF c >= 0 /\ c < Len(m.displayItems) /\ m.displayItems[c + 1].IsHeader
    THEN IF delta > 0 /\ c < Len(m.displayItems) - 1 THEN c + 1
         ELSE IF delta < 0 /\ c > 0 THEN c - 1
         ELSE c
    ELSE c

\* moveCursor, SetCursor: the offset that keeps cursor c in the window
AdjustOffset(m, c) ==
    IF c < m.offset THEN c
    ELSE IF c >= m.offset + flVisibleLines(m) THEN c - flVisibleLines(m) + 1
    ELSE m.offset

moveCursor(m, delta) ==
    [m EXCEPT !.cursor = SkipHeader(m, delta, Clamped(m, m.cursor + delta)),
              !.selected = SkipHeader(m, delta, Clamped(m, m.cursor + delta)),
              !.offset = AdjustOffset(m, SkipHeader(m, delta, Clamped(m, m.cursor + delta)))]

\* SetFiles
flSetFiles(m, files) ==
    { findFirstFile(r) :
        r \in rebuildDisplayItems([m EXCEPT !.files = files, !.cursor = 0, !.offset = 0, !.searchQuery = <<>>]) }

\* A SetFocused that leaves the search input as it is
flSetFocusedKeepsSearch(m, f) == [m EXCEPT !.focused = f]

\* SetFocused
flSetFocused(m, f) == IF f THEN [m EXCEPT !.focused = TRUE] ELSE [m EXCEPT !.focused = FALSE, !.searching = FALSE]

\* textinput.Update of the focused search input: a character is appended, backspace removes the last
TypedInto(value, key) ==
    IF key = "backspace" THEN (IF value = <<>> THEN <<>> ELSE SubSeq(value, 1, Len(value) - 1))
    ELSE IF key \in {"a", "b", "c", "d", "q", "/", "[", "]"} THEN Append(value, key)
    ELSE value

Result(m, cmd) == [m |-> m, cmd |-> cmd]
NoCmd == [type |-> "none", file |-> NoFile]

\* Update while searching, key esc
SearchEsc(m) ==
    { Result(r, NoCmd) :
        r \in rebuildDisplayItems([m EXCEPT !.searching = FALSE, !.searchQuery = <<>>, !.searchInput = <<>>]) }

\* Update while searching, any key the input takes: the query follows the input
SearchTyped(m, key) ==
    IF TypedInto(m.searchInput, key) # m.searchQuery
    THEN { Result(findFirstFile([r EXCEPT !.cursor = 0, !.offset = 0]), NoCmd) :
             r \in rebuildDisplayItems([m EXCEPT !.searchInput = TypedInto(m.searchInput, key),
                                                 !.searchQuery = TypedInto(m.searchInput, key)]) }
    ELSE { Result([m EXCEPT !.searchInput = TypedInto(m.searchInput, key)], NoCmd) }

\* Update, keys "[" and "]": the view mode before and after
PrevMode(v) == IF v > 0 THEN v - 1 ELSE ViewRaw
\* The next view mode without the wrap-around from Raw to Folder
NextModeNoWrap(v) == IF v < ViewRaw THEN v + 1 ELSE ViewRaw

NextMode(v) == IF v < ViewRaw THEN v + 1 ELSE ViewFolder

SwitchMode(m, v) ==
    { Result(findFirstFile([r EXCEPT !.cursor = 0, !.offset = 0]), NoCmd) :
        r \in rebuildDisplayItems([m EXCEPT !.viewMode = v]) }

\* Update, key End
KeyEnd(m) ==
    IF Len(m.displayItems) > 0
    THEN [m EXCEPT !.cursor = Len(m.displayItems) - 1, !.selected = Len(m.displayItems) - 1,
                   !.offset = IF Len(m.displayItems) - 1 >= flVisibleLines(m)
                              THEN Len(m.displayItems) - 1 - flVisibleLines(m) + 1 ELSE m.offset]
    ELSE m

\* Update, key PageUp
PageUpTo(m) == findNearestFile([m EXCEPT !.cursor = IF m.cursor - flVisibleLines(m) < 0 THEN 0 ELSE m.cursor - flVisibleLines(m)])
KeyPageUp(m) == [PageUpTo(m) EXCEPT !.offset = PageUpTo(m).cursor]

\* Update, key PageDown
PageDownTo(m) ==
    findNearestFile([m EXCEPT !.cursor = IF m.cursor + flVisibleLines(m) >= Len(m.displayItems)
                                         THEN Len(m.displayItems) - 1 ELSE m.cursor + flVisibleLines(m)])
KeyPageDown(m) ==
    [PageDownTo(m) EXCEPT !.offset = IF PageDownTo(m).cursor >= m.offset + flVisibleLines(m)
                                     THEN PageDownTo(m).cursor - flVisibleLines(m) + 1 ELSE m.offset]

\* An Enter that selects the first file of the list wherever the selection is
KeyEnterCmdFirst(m) ==
    IF HasFile(m.displayItems)
    THEN [type |-> "FileSelectMsg", file |-> m.displayItems[FirstFile(m.displayItems)].File]
    ELSE NoCmd

\* Update, key Enter outside the search input: FileSelectMsg for the selected file item
KeyEnterCmd(m) ==
    IF m.selected >= 0 /\ m.selected < Len(m.displayItems)
    THEN IF ~m.displayItems[m.selected + 1].IsHeader /\ m.displayItems[m.selected + 1].File # NoFile
         THEN [type |-> "FileSelectMsg", file |-> m.displayItems[m.selected + 1].File]
         ELSE NoCmd
    ELSE NoCmd

\* Update, the keys handled outside the search input
UpdateKeys(m, key) ==
    IF key = "/" THEN { Result([m EXCEPT !.searching = TRUE, !.offset = 0], [type |-> "Blink", file |-> NoFile]) }
    ELSE IF key = "[" THEN SwitchMode(m, PrevMode(m.viewMode))
    ELSE IF key = "]" THEN SwitchMode(m, NextMode(m.viewMode))
    ELSE IF key \in {"up", "k"} THEN { Result(moveCursor(m, 0 - 1), NoCmd) }
    ELSE IF key \in {"down", "j"} THEN { Result(moveCursor(m, 1), NoCmd) }
    ELSE IF key \in {"home", "g"} THEN { Result(findFirstFile([m EXCEPT !.cursor = 0, !.offset = 0]), NoCmd) }
    ELSE IF key \in {"end", "G"} THEN { Result(KeyEnd(m), NoCmd) }
    ELSE IF key \in {"pgup", "ctrl+u"} THEN { Result(KeyPageUp(m), NoCmd) }
    ELSE IF key \in {"pgdown", "ctrl+d"} THEN { Result(KeyPageDown(m), NoCmd) }
    ELSE IF key = "enter" THEN { Result(m, KeyEnterCmd(m)) }
    ELSE { Result(m, NoCmd) }

\* Update of the file list on a key message
flUpdate(m, key) ==
    IF ~m.focused THEN { Result(m, NoCmd) }
    ELSE IF m.searching
    THEN IF key = "esc" THEN SearchEsc(m)
         ELSE IF key = "enter" THEN { Result([m EXCEPT !.searching = FALSE], NoCmd) }
         ELSE IF key \in {"up", "down"} THEN UpdateKeys([m EXCEPT !.searching = FALSE], key)
         ELSE SearchTyped(m, key)
    ELSE UpdateKeys(m, key)

----------------------------------------------------------------------------
\* The changed files handed to the file list: lists without repetition drawn from a pool
FilePool ==
    { ChangedFile("M", <<"b">>), ChangedFile("A", <<"a">>),
      ChangedFile("D", <<"d", "/", "a">>), ChangedFile("R", <<"d", "/", "c">>) }

FileLists ==
    UNION { { fs \in [1..n -> FilePool] : \A i, j \in 1..n : fs[i] = fs[j] => i = j } : n \in 0..MaxFiles }

\* The keys sent to the file list
MoveKeys == {"up", "down", "home", "end", "pgup", "pgdown"}
TypedKeys == {"a", "d", "backspace"}

NoOp == [op |-> "none", cmd |-> NoCmd, rebuiltSame |-> FALSE, prev |-> <<>>]

----------------------------------------------------------------------------
\* git.GetChangedFiles

\* git.ChangedFile as GetChangedFiles fills it
GitChangedFile(status, path, oldPath, adds, dels) ==
    [Status |-> status, Path |-> path, OldPath |-> oldPath, Additions |-> adds, Deletions |-> dels]

StatusRenamed == "R"

\* strings.Fields: the maximal runs of characters that are not white space
IsSpaceChar(c) == c \in {" ", "\t"}

RECURSIVE FieldsAcc(_, _, _)
FieldsAcc(s, cur, acc) ==
    IF s = <<>> THEN (IF cur = <<>> THEN acc ELSE Append(acc, cur))
    ELSE IF IsSpaceChar(Head(s))
    THEN FieldsAcc(Tail(s), <<>>, IF cur = <<>> THEN acc ELSE Append(acc, cur))
    ELSE FieldsAcc(Tail(s), Append(cur, Head(s)), acc)

Fields(s) == FieldsAcc(s, <<>>, <<>>)

\* bufio.Scanner over the output: the lines without their terminator, no
\* empty token after the last newline
ScanLines(text) ==
    LET parts == Split(text)
    IN IF parts[Len(parts)] = <<>> THEN SubSeq(parts, 1, Len(parts) - 1) ELSE parts

\* The first loop of GetChangedFiles over the name-status lines
RECURSIVE ParseNameStatus(_, _)
ParseNameStatus(ls, files) ==
    IF ls = <<>> THEN files
    ELSE LET line == Head(ls)
             parts == Fields(line)
         IN IF line = <<>> \/ Len(parts) < 2 THEN ParseNameStatus(Tail(ls), files)
            ELSE LET status == Head(parts[1])
                     file == IF status = StatusRenamed /\ Len(parts) >= 3
                             THEN GitChangedFile(status, parts[3], parts[2], 0, 0)
                             ELSE GitChangedFile(status, parts[Len(parts)], <<>>, 0, 0)
                 IN ParseNameStatus(Tail(ls), Append(files, file))

\* fmt.Sscanf(field, "%d", &n) into n = 0
ScanCount(field) == IF ScanInt(field).ok THEN ScanInt(field).val ELSE 0

\* The second loop: statsMap, from the third field to (additions, deletions)
RECURSIVE StatsMap(_, _)
StatsMap(ls, m) ==
    IF ls = <<>> THEN m
    ELSE LET parts == Fields(Head(ls))
         IN IF Len(parts) >= 3
            THEN StatsMap(Tail(ls),
                          [k \in DOMAIN m \cup {parts[3]} |->
                              IF k = parts[3] THEN <<ScanCount(parts[1]), ScanCount(parts[2])>> ELSE m[k]])
            ELSE StatsMap(Tail(ls), m)

\* The last loop: the counts of the files found in statsMap
WithStats(files, m) ==
    [i \in 1..Len(files) |->
        IF files[i].Path \in DOMAIN m
        THEN [files[i] EXCEPT !.Additions = m[files[i].Path][1], !.Deletions = m[files[i].Path][2]]
        ELSE files[i]]

\* GetChangedFiles on the two outputs of git; failed says both name-status commands failed
GetChangedFiles(nameStatus, numstat, failed) ==
    IF failed THEN [files |-> <<>>, err |-> TRUE]
    ELSE [files |-> WithStats(ParseNameStatus(ScanLines(nameStatus), <<>>),
                              StatsMap(ScanLines(numstat), [k \in {} |-> <<0, 0>>])),
          err |-> FALSE]

\* What git prints: one entry per changed file, TAB between the fields
GitPaths == { <<"a">>, <<"b">>, <<"a", " ", "b">> }
PlainStatuses == { <<"M">>, <<"A">>, <<"D">> }
PairStatuses == { <<"R", "1", "0", "0">>, <<"C", "7", "5">> }

GitEntries ==
    { [status |-> st, old |-> <<>>, new |-> p] : st \in PlainStatuses, p \in GitPaths }
    \cup { e \in [status : PairStatuses, old : GitPaths, new : GitPaths] : e.old # e.new }

HasOldPath(e) == e.old # <<>>

NameStatusLine(e) ==
    IF HasOldPath(e) THEN e.status \o <<"\t">> \o e.old \o <<"\t">> \o e.new
    ELSE e.status \o <<"\t">> \o e.new

NumstatLine(e, adds, dels) ==
    <<Itoa(adds), "\t", Itoa(dels), "\t">>
        \o (IF HasOldPath(e) THEN e.old \o <<" ", "=", ">", " ">> \o e.new ELSE e.new)

RECURSIVE Output(_)
Output(ls) == IF ls = <<>> THEN <<>> ELSE Head(ls) \o <<"\n">> \o Output(Tail(ls))

EntryLists == UNION { [1..n -> GitEntries] : n \in 0..MaxEntries }

NotRun == [entries |-> <<>>, nameStatus |-> <<>>, numstat |-> <<>>, files |-> <<>>, err |-> FALSE, ran |-> FALSE]

----------------------------------------------------------------------------
\* filepicker.Model

\* *git.Repo and *git.FileDiff values: a diff is known by what it was computed for
NilRepo == "nil"
NoFileDiff == [repo |-> NilRepo, base |-> "", path |-> <<>>]
FileDiffFor(repo, base, path) == [repo |-> repo, base |-> base, path |-> path]

PickerPaths == << <<"a">>, <<"b">>, <<"a", "b">> >>
PickerPathSet == { PickerPaths[i] : i \in 1..Len(PickerPaths) }

\* filepicker.New
PickerNew ==
    [files |-> <<>>, diffs |-> [p \in PickerPathSet |-> NoFileDiff], matches |-> <<>>,
     searchInput |-> <<>>, cursor |-> 0, offset |-> 0, width |-> 0, height |-> 0,
     active |-> FALSE, repo |-> NilRepo, baseBranch |-> ""]

\* strings.ReplaceAll(value, " ", "")
WithoutSpaces(value) == SelectSeq(value, LAMBDA c : c # " ")

\* updateMatches: every index without a query, else the indexes fuzzy.Find
\* returns, in the library's rank order (any order here)
updateMatches(m) ==
    LET query == WithoutSpaces(m.searchInput)
    IN IF query = <<>>
       THEN { [m EXCEPT !.matches = [i \in 1..Len(m.files) |-> i - 1]] }
       ELSE { [m EXCEPT !.matches = o] :
                o \in Orders({ i - 1 : i \in { k \in 1..Len(m.files) : IsSubsequence(query, m.files[k]) } }) }

pkOverlayHeight(m) == Max((m.height * 80) \div 100, 10)
pkContentHeight(m) == Max(pkOverlayHeight(m) - 6, 3)

ensureVisible(m) ==
    IF m.cursor < m.offset THEN [m EXCEPT !.offset = m.cursor]
    ELSE IF m.cursor >= m.offset + pkContentHeight(m) THEN [m EXCEPT !.offset = m.cursor - pkContentHeight(m) + 1]
    ELSE m

\* loadDiff; outcome is how the two GetFileDiff attempts end
loadDiff(m, path, outcome) ==
    IF m.diffs[path] # NoFileDiff THEN [m |-> m, diff |-> m.diffs[path]]
    ELSE IF m.repo = NilRepo THEN [m |-> m, diff |-> NoFileDiff]
    ELSE IF outcome = "error" THEN [m |-> m, diff |-> NoFileDiff]
    ELSE [m |-> [m EXCEPT !.diffs[path] = FileDiffFor(m.repo, m.baseBranch, path)],
          diff |-> FileDiffFor(m.repo, m.baseBranch, path)]

\* The path RenderOverlay previews, if it previews one
Previews(m) ==
    /\ m.active /\ m.width # 0 /\ m.height # 0
    /\ Len(m.matches) > 0 /\ m.cursor < Len(m.matches)

PreviewPath(m) == m.files[m.matches[m.cursor + 1] + 1]

pkClose(m) == [m EXCEPT !.active = FALSE]

\* Update on a key; the results are the possible models
pkUpdate(m, key) ==
    IF ~m.active THEN {m}
    ELSE IF key = "esc" THEN {pkClose(m)}
    ELSE IF key = "enter"
    THEN (IF Len(m.matches) > 0 /\ m.cursor < Len(m.matches) THEN {pkClose(m)} ELSE {m})
    ELSE IF key = "up"
    THEN (IF m.cursor > 0 THEN {ensureVisible([m EXCEPT !.cursor = m.cursor - 1])} ELSE {m})
    ELSE IF key = "down"
    THEN (IF m.cursor < Len(m.matches) - 1 THEN {ensureVisible([m EXCEPT !.cursor = m.cursor + 1])} ELSE {m})
    ELSE IF key = "ctrl+u"
    THEN {ensureVisible([m EXCEPT !.cursor = Max(m.cursor - 10, 0)])}
    ELSE IF key = "ctrl+d"
    THEN {ensureVisible([m EXCEPT !.cursor =
              Max(IF m.cursor + 10 >= Len(m.matches) THEN Len(m.matches) - 1 ELSE m.cursor + 10, 0)])}
    ELSE { [r EXCEPT !.cursor = 0, !.offset = 0] :
             r \in updateMatches([m EXCEPT !.searchInput = TypedInto(m.searchInput, key)]) }

PickerFileLists == { SubSeq(PickerPaths, 1, n) : n \in { k \in 0..MaxPickerFiles : k <= Len(PickerPaths) } }
PickerRepos == { <<"r1", "main">>, <<"r1", "dev">>, <<"r2", "main">> }
PickerKeys == {"esc", "enter", "up", "down", "ctrl+u", "ctrl+d", "a", "b", "backspace"}
NoLoad == [called |-> FALSE, path |-> <<>>, repo |-> NilRepo, base |-> "", diff |-> NoFileDiff]

----------------------------------------------------------------------------
\* app.Model

\* app.Pane
PaneFileList == 0
PaneDiffView == 1

NoErr == "nil"

\* app.New: the fields besides the two panes
AppNew ==
    [repo |-> NilRepo, baseBranch |-> "", files |-> <<>>, focusedPane |-> PaneFileList,
     width |-> 0, height |-> 0, err |-> NoErr]

\* The diffview.Model fields Update acts on
DiffViewModel == [lines |-> lines, viewMode |-> viewMode, offset |-> offset, cursor |-> cursor,
                  height |-> height, focused |-> focused]

\* An Update that moves the cursor to the last row and leaves the offset alone
dvUpdateNoScroll(dv, key) ==
    IF dv.focused /\ key \in {"end", "G"} THEN [dv EXCEPT !.cursor = Max(Len(dv.lines) - 1, 0)] ELSE dv

\* diffview.Update on a key
dvUpdate(dv, key) ==
    IF ~dv.focused THEN dv
    ELSE LET visibleHeight == visibleLines(dv.height)
             maxCursor == Max(Len(dv.lines) - 1, 0)
         IN IF key = "["
            THEN [dv EXCEPT !.viewMode = IF dv.viewMode > 0 THEN dv.viewMode - 1 ELSE ViewOld,
                            !.offset = 0, !.cursor = 0]
            ELSE IF key = "]"
            THEN [dv EXCEPT !.viewMode = IF dv.viewMode < ViewOld THEN dv.viewMode + 1 ELSE ViewBoth,
                            !.offset = 0, !.cursor = 0]
            ELSE IF key \in {"up", "k"}
            THEN IF dv.cursor > 0
                 THEN [dv EXCEPT !.cursor = dv.cursor - 1,
                                 !.offset = IF dv.cursor - 1 < dv.offset THEN dv.cursor - 1 ELSE dv.offset]
                 ELSE dv
            ELSE IF key \in {"down", "j"}
            THEN IF dv.cursor < maxCursor
                 THEN [dv EXCEPT !.cursor = dv.cursor + 1,
                                 !.offset = IF dv.cursor + 1 >= dv.offset + visibleHeight
                                            THEN dv.cursor + 1 - visibleHeight + 1 ELSE dv.offset]
                 ELSE dv
            ELSE IF key \in {"pgup", "ctrl+u"}
            THEN [dv EXCEPT !.cursor = Max(dv.cursor - visibleHeight, 0),
                            !.offset = Max(dv.cursor - visibleHeight, 0)]
            ELSE IF key \in {"pgdown", "ctrl+d"}
            THEN LET c == IF dv.cursor + visibleHeight > maxCursor THEN maxCursor ELSE dv.cursor + visibleHeight
                 IN [dv EXCEPT !.cursor = c,
                               !.offset = IF c >= dv.offset + visibleHeight THEN c - visibleHeight + 1 ELSE dv.offset]
            ELSE IF key \in {"home", "g"}
            THEN [dv EXCEPT !.cursor = 0, !.offset = 0]
            ELSE IF key \in {"end", "G"}
            THEN [dv EXCEPT !.cursor = maxCursor,
                            !.offset = IF maxCursor >= visibleHeight THEN maxCursor - visibleHeight + 1 ELSE dv.offset]
            ELSE dv

\* What Update returns: the three models and the command
AppResult(a, fl, dv, cmd) == [app |-> a, fl |-> fl, dv |-> dv, cmd |-> cmd]

QuitCmd == [type |-> "Quit", file |-> NoFile]

\* A setFocus that leaves the focused flags of the two panes as they are
setFocusPaneOnly(a, fl, dv, pane) == AppResult([a EXCEPT !.focusedPane = pane], fl, dv, NoCmd)

\* Update on a diffLoadedMsg: the err field after a failed and after a successful load
diffLoadedErr(a, err) == [a EXCEPT !.err = err]
diffLoadedOkKeepsErr(a) == a
diffLoadedOk(a) == [a EXCEPT !.err = NoErr]

\* setFocus
setFocus(a, fl, dv, pane) ==
    AppResult([a EXCEPT !.focusedPane = pane], flSetFocused(fl, pane = PaneFileList),
              [dv EXCEPT !.focused = (pane = PaneDiffView)], NoCmd)

\* Update on a tea.KeyMsg
AppUpdateKey(a, fl, dv, key) ==
    IF key \in {"q", "ctrl+c"} /\ ~fl.searching THEN { AppResult(a, fl, dv, QuitCmd) }
    ELSE IF key = "esc" /\ a.focusedPane = PaneDiffView THEN { setFocus(a, fl, dv, PaneFileList) }
    ELSE IF ~fl.searching /\ key = "right" /\ a.focusedPane = PaneFileList
    THEN { setFocus(a, fl, dv, PaneDiffView) }
    ELSE IF ~fl.searching /\ key = "left" /\ a.focusedPane = PaneDiffView
    THEN { setFocus(a, fl, dv, PaneFileList) }
    ELSE IF a.focusedPane = PaneFileList
    THEN { AppResult(a, r.m, dv, r.cmd) : r \in flUpdate(fl, key) }
    ELSE { AppResult(a, fl, dvUpdate(dv, key), NoCmd) }

\* The message a command sends when it has run
LoadDiffCmd(a, path) == [type |-> "loadDiff", path |-> path, repo |-> a.repo]
FileSelectMsg(file) == [type |-> "FileSelectMsg", file |-> file]

\* The files, and the diff texts, git can answer with
AppFileLists ==
    { <<>>,
      << ChangedFile("M", <<"b">>), ChangedFile("D", <<"d", "/", "a">>) >> }

\* What git diff prints for a path: the two lines that name the file, then
\* one hunk; a file of the top directory and a file of a folder differ in the hunk
GitDiffOf(path) ==
    IF Dir(path) = <<".">>
    THEN [lines |-> <<Body("oldPath", path), Body("newPath", path),
                      HdrFull(1, 1, 1, 1), Body("context", <<"a">>)>>, nl |-> TRUE]
    ELSE [lines |-> <<Body("oldPath", path), Body("newPath", path),
                      HdrFull(1, 2, 1, 2), Body("context", <<"a">>), Body("deletion", <<"a">>),
                      Body("addition", <<"b">>)>>, nl |-> FALSE]

\* Lists in which the first file is not of the folder that sorts first, and
\* the keys that select a file
LoadFileLists ==
    { << ChangedFile("M", <<"a", "/", "b">>), ChangedFile("M", <<"b">>) >>,
      << ChangedFile("M", <<"b">>), ChangedFile("M", <<"d", "/", "a">>) >> }

LoadKeys == {"enter", "up", "down"}

AppKeys == {"q", "ctrl+c", "esc", "left", "right", "enter", "up", "down", "/"}

\* The characters typed while the search input is open
AppTyped == {"/"}

NoMsg == [msg |-> "none", cmd |-> "none", errBefore |-> NoErr, paneBefore |-> PaneFileList, requested |-> <<>>]

----------------------------------------------------------------------------
\* diffview.New(); the text of the diff is what git will print for the file
DiffViewNew(s) ==
    /\ src = s
    /\ diffText = TextOf(s)
    /\ pc = "text"
    /\ diff = NilDiff
    /\ parseRes = "none"
    /\ lines = <<>>
    /\ flushed = <<>>
    /\ viewMode = ViewBoth
    /\ offset = 0
    /\ cursor = 0
    /\ height = 0
    /\ focused = FALSE
    /\ ret = NoRet

\* The diff view before any diff, over every input text; the file list as New leaves it
Init ==
    /\ \E s \in Inputs : DiffViewNew(s)
    /\ fileList = FileListNew
    /\ flLast = NoOp
    /\ changed = NotRun
    /\ picker = PickerNew
    /\ pkLast = NoLoad
    /\ app = AppNew
    /\ inflight = {}
    /\ appLast = NoMsg

\* GetFileDiff: parseDiff on git's output
Parse ==
    /\ pc = "text"
    /\ \E r \in {parseDiff(diffText)} :
          /\ diff' = r.diff
          /\ parseRes' = r.res
    /\ pc' = "parsed"
    /\ ret' = NoRet
    /\ UNCHANGED <<src, diffText, lines, flushed, viewMode, offset, cursor, height, focused>>
    /\ UNCHANGED outsideDiff

\* diffLoadedMsg without error: SetDiff
SetDiff ==
    /\ pc = "parsed"
    /\ parseRes = "ok"
    /\ \E c \in {convertToSideBySide(diff)} :
          /\ lines' = c.rows
          /\ flushed' = c.calls
    /\ offset' = 0
    /\ cursor' = 0
    /\ pc' = "shown"
    /\ ret' = NoRet
    /\ UNCHANGED <<src, diffText, diff, parseRes, viewMode, height, focused>>
    /\ UNCHANGED outsideDiff

\* WindowSizeMsg: SetSize
SetSize ==
    /\ height' = PaneHeight
    /\ ret' = NoRet
    /\ UNCHANGED <<src, diffText, pc, diff, parseRes, lines, flushed, viewMode, offset, cursor, focused>>
    /\ UNCHANGED outsideDiff

\* setFocus: SetFocused
SetFocused ==
    /\ \E f \in BOOLEAN : focused' = f
    /\ ret' = NoRet
    /\ UNCHANGED <<src, diffText, pc, diff, parseRes, lines, flushed, viewMode, offset, cursor, height>>
    /\ UNCHANGED outsideDiff

\* Update, key "[": previous view mode
KeyBracketLeft ==
    /\ focused
    /\ viewMode' = IF viewMode > 0 THEN viewMode - 1 ELSE ViewOld
    /\ offset' = 0
    /\ cursor' = 0
    /\ ret' = NoRet
    /\ UNCHANGED <<src, diffText, pc, diff, parseRes, lines, flushed, height, focused>>
    /\ UNCHANGED outsideDiff

\* Update, key "]": next view mode
KeyBracketRight ==
    /\ focused
    /\ viewMode' = IF viewMode < ViewOld THEN viewMode + 1 ELSE ViewBoth
    /\ offset' = 0
    /\ cursor' = 0
    /\ ret' = NoRet
    /\ UNCHANGED <<src, diffText, pc, diff, parseRes, lines, flushed, height, focused>>
    /\ UNCHANGED outsideDiff

\* A caller asks for the searchable lines
CallGetSearchableLines ==
    /\ ret' = [op |-> "search", mode |-> viewMode, out |-> GetSearchableLines(lines, viewMode)]
    /\ UNCHANGED <<src, diffText, pc, diff, parseRes, lines, flushed, viewMode, offset, cursor, height, focused>>
    /\ UNCHANGED outsideDiff

\* The search overlay holds the searchable lines; enter on one of them sends
\* JumpToLineMsg with its OrigIdx, which is handed to JumpToLine
JumpToHit ==
    /\ ret.op = "search"
    /\ \E idx \in 0..(Len(ret.out) - 1) :
          /\ \E j \in {JumpToLine(lines, height, cursor, offset, EnterOrigIdx(ret.out, idx))} :
                /\ cursor' = j.cursor
                /\ offset' = j.offset
          /\ ret' = [op |-> "jump", mode |-> ret.mode, out |-> <<ret.out[idx + 1]>>]
    /\ UNCHANGED <<src, diffText, pc, diff, parseRes, lines, flushed, viewMode, height, focused>>
    /\ UNCHANGED outsideDiff

\* The pane is drawn
CallView ==
    /\ ret' = [op |-> "view", mode |-> viewMode,
               out |-> View(diff, lines, viewMode, offset, height, cursor, focused)]
    /\ UNCHANGED <<src, diffText, pc, diff, parseRes, lines, flushed, viewMode, offset, cursor, height, focused>>
    /\ UNCHANGED outsideDiff

Next ==
    \/ Parse
    \/ SetDiff
    \/ SetSize
    \/ SetFocused
    \/ KeyBracketLeft
    \/ KeyBracketRight
    \/ CallGetSearchableLines
    \/ JumpToHit
    \/ CallView

Spec == Init /\ [][Next]_vars

----------------------------------------------------------------------------
\* The file list on its own: the diff view stays as New leaves it

InitFileList ==
    /\ DiffViewNew([lines |-> <<>>, nl |-> FALSE])
    /\ fileList = FileListNew
    /\ flLast = NoOp
    /\ changed = NotRun
    /\ picker = PickerNew
    /\ pkLast = NoLoad
    /\ app = AppNew
    /\ inflight = {}
    /\ appLast = NoMsg

\* One operation on the file list with its possible results; rebuilds says the
\* operation rebuilt the display list, and prev keeps the list it replaced when
\* files, view mode and (empty) query are the same before and after
SameBuild(m1, m2) ==
    /\ m2.files = m1.files /\ m2.viewMode = m1.viewMode
    /\ m2.searchQuery = <<>> /\ m1.searchQuery = <<>>

FileListStep(op, rebuilds, results) ==
    /\ \E r \in results :
          /\ fileList' = r.m
          /\ flLast' = [op |-> op, cmd |-> r.cmd,
                        rebuiltSame |-> rebuilds /\ SameBuild(fileList, r.m),
                        prev |-> IF rebuilds /\ SameBuild(fileList, r.m) THEN fileList.displayItems ELSE <<>>]
    /\ UNCHANGED outsideFileList

\* filesLoadedMsg, delivered once: SetFiles
FileListSetFiles ==
    /\ fileList.files = <<>>
    /\ \E fs \in FileLists :
          FileListStep("other", TRUE, { Result(r, NoCmd) : r \in flSetFiles(fileList, fs) })

\* WindowSizeMsg: SetSize
FileListSetSize ==
    /\ FileListStep("other", FALSE, { Result([fileList EXCEPT !.height = FileListHeight], NoCmd) })

\* setFocus: SetFocused
FileListSetFocused ==
    /\ \E f \in BOOLEAN : FileListStep("other", FALSE, { Result(flSetFocused(fileList, f), NoCmd) })

\* Update, a cursor-movement key
FileListKeyMove ==
    /\ fileList.focused
    /\ \E k \in MoveKeys : FileListStep("move", FALSE, flUpdate(fileList, k))

\* Update, key "/" with the search input closed
FileListKeySearch ==
    /\ fileList.focused /\ ~fileList.searching
    /\ FileListStep("other", FALSE, flUpdate(fileList, "/"))

\* Update, a key typed into the open search input
FileListKeyType ==
    /\ fileList.focused /\ fileList.searching
    /\ \E k \in TypedKeys :
          /\ Len(TypedInto(fileList.searchInput, k)) <= MaxQuery
          /\ FileListStep(IF TypedInto(fileList.searchInput, k) # fileList.searchQuery THEN "query" ELSE "other",
                          TypedInto(fileList.searchInput, k) # fileList.searchQuery, flUpdate(fileList, k))

\* Update, key esc
FileListKeyEsc ==
    /\ fileList.focused
    /\ FileListStep(IF fileList.searchQuery = <<>> THEN "other"
                    ELSE IF fileList.searching THEN "esc" ELSE "escKept",
                    fileList.searching, flUpdate(fileList, "esc"))

\* Update, key enter
FileListKeyEnter ==
    /\ fileList.focused
    /\ FileListStep("enter", FALSE, flUpdate(fileList, "enter"))

\* Update, keys "[" and "]" with the search input closed
FileListKeyBracket ==
    /\ fileList.focused /\ ~fileList.searching
    /\ \E k \in {"[", "]"} :
          FileListStep(IF k = "]" THEN "modeNext" ELSE "modePrev", TRUE, flUpdate(fileList, k))

NextFileList ==
    \/ FileListSetFiles
    \/ FileListSetSize
    \/ FileListSetFocused
    \/ FileListKeyMove
    \/ FileListKeySearch
    \/ FileListKeyType
    \/ FileListKeyEsc
    \/ FileListKeyEnter
    \/ FileListKeyBracket

SpecFileList == InitFileList /\ [][NextFileList]_vars

----------------------------------------------------------------------------
\* parseDiff on its own, over texts with several hunks and file-path lines

InitParse ==
    /\ \E s \in ParseInputs : DiffViewNew(s)
    /\ fileList = FileListNew
    /\ flLast = NoOp
    /\ changed = NotRun
    /\ picker = PickerNew
    /\ pkLast = NoLoad
    /\ app = AppNew
    /\ inflight = {}
    /\ appLast = NoMsg

NextParse ==
    \/ Parse

SpecParse == InitParse /\ [][NextParse]_vars

----------------------------------------------------------------------------
\* GetChangedFiles on its own, over what git prints for a few changed files

InitChangedFiles ==
    /\ DiffViewNew([lines |-> <<>>, nl |-> FALSE])
    /\ fileList = FileListNew
    /\ flLast = NoOp
    /\ changed = NotRun
    /\ picker = PickerNew
    /\ pkLast = NoLoad
    /\ app = AppNew
    /\ inflight = {}
    /\ appLast = NoMsg

\* The one call of a run (loadRepo): git prints the name-status and numstat lines of the entries (or
\* fails), and the call returns the files
CallGetChangedFiles ==
    /\ ~changed.ran
    /\ \E es \in EntryLists, adds \in 0..MaxStat, dels \in 0..MaxStat, failed \in BOOLEAN, noStat \in BOOLEAN :
          /\ failed => es = <<>> /\ adds = 0 /\ dels = 0 /\ ~noStat
          /\ es = <<>> => adds = 0 /\ dels = 0 /\ ~noStat
          /\ LET nameStatus == IF failed THEN <<>> ELSE Output([i \in 1..Len(es) |-> NameStatusLine(es[i])])
                 numstat == IF failed \/ noStat THEN <<>>
                            ELSE Output([i \in 1..Len(es) |-> NumstatLine(es[i], adds, dels)])
             IN \E r \in { GetChangedFiles(nameStatus, numstat, failed) } :
                   changed' = [entries |-> es, nameStatus |-> nameStatus, numstat |-> numstat,
                               files |-> r.files, err |-> r.err, ran |-> TRUE]
    /\ UNCHANGED outsideGit

NextChangedFiles ==
    \/ CallGetChangedFiles

SpecChangedFiles == InitChangedFiles /\ [][NextChangedFiles]_vars

----------------------------------------------------------------------------
\* The file picker on its own

InitPicker ==
    /\ DiffViewNew([lines |-> <<>>, nl |-> FALSE])
    /\ fileList = FileListNew
    /\ flLast = NoOp
    /\ changed = NotRun
    /\ picker = PickerNew
    /\ pkLast = NoLoad
    /\ app = AppNew
    /\ inflight = {}
    /\ appLast = NoMsg

PickerSetFiles ==
    /\ \E fs \in PickerFileLists : picker' \in updateMatches([picker EXCEPT !.files = fs])
    /\ UNCHANGED <<pkLast, outsidePicker>>

PickerSetRepo ==
    /\ \E rb \in PickerRepos : picker' = [picker EXCEPT !.repo = rb[1], !.baseBranch = rb[2]]
    /\ UNCHANGED <<pkLast, outsidePicker>>

PickerSetSize ==
    /\ \E h \in {0, PickerHeight} : picker' = [picker EXCEPT !.width = 4 * h, !.height = h]
    /\ UNCHANGED <<pkLast, outsidePicker>>

PickerOpen ==
    /\ picker' \in updateMatches([picker EXCEPT !.active = TRUE, !.searchInput = <<>>, !.cursor = 0, !.offset = 0])
    /\ UNCHANGED <<pkLast, outsidePicker>>

PickerKey ==
    /\ picker.active
    /\ \E key \in PickerKeys :
          /\ Len(TypedInto(picker.searchInput, key)) <= MaxPickerQuery
          /\ picker' \in pkUpdate(picker, key)
    /\ UNCHANGED <<pkLast, outsidePicker>>

\* RenderOverlay with a preview: loadDiff for the file under the cursor
PickerRenderOverlay ==
    /\ Previews(picker)
    /\ \E outcome \in {"head", "worktree", "error"} :
          \E r \in { loadDiff(picker, PreviewPath(picker), outcome) } :
             /\ picker' = r.m
             /\ pkLast' = [called |-> TRUE, path |-> PreviewPath(picker), repo |-> picker.repo,
                           base |-> picker.baseBranch, diff |-> r.diff]
    /\ UNCHANGED outsidePicker

NextPicker ==
    \/ PickerSetFiles
    \/ PickerSetRepo
    \/ PickerSetSize
    \/ PickerOpen
    \/ PickerKey
    \/ PickerRenderOverlay

SpecPicker == InitPicker /\ [][NextPicker]_vars

----------------------------------------------------------------------------
\* The application: Update on each kind of message

InitApp ==
    /\ DiffViewNew([lines |-> <<>>, nl |-> FALSE])
    /\ fileList = flSetFocused(FileListNew, TRUE)
    /\ flLast = NoOp
    /\ changed = NotRun
    /\ picker = PickerNew
    /\ pkLast = NoLoad
    /\ app = AppNew
    /\ inflight = {[type |-> "filesLoaded"]}
    /\ appLast = NoMsg

\* The program runs until Update returns tea.Quit; the first message is the
\* WindowSizeMsg the runtime sends at start
Running == appLast.cmd # "Quit"
Sized == app.height # 0

\* What is kept of the last Update: the kind of message, the kind of command
\* returned, and the error and the focused pane before it; and the path of
\* the diff load that was requested last
Handled(msg, cmd) ==
    [msg |-> msg, cmd |-> cmd, errBefore |-> app.err, paneBefore |-> app.focusedPane,
     requested |-> appLast.requested]

Requested(msg, cmd, path) == [Handled(msg, cmd) EXCEPT !.requested = path]

\* The two panes after Update
PanesBecome(fl, dv) ==
    /\ fileList' = fl
    /\ viewMode' = dv.viewMode
    /\ offset' = dv.offset
    /\ cursor' = dv.cursor
    /\ height' = dv.height
    /\ focused' = dv.focused
    /\ lines' = dv.lines

\* tea.WindowSizeMsg: updateLayout
AppWindowSize ==
    /\ Running /\ ~Sized
    /\ app' = [app EXCEPT !.width = 8 * AppHeight, !.height = AppHeight]
    /\ PanesBecome([fileList EXCEPT !.height = AppHeight - 4], [DiffViewModel EXCEPT !.height = AppHeight - 4])
    /\ appLast' = Handled("size", "none")
    /\ UNCHANGED <<src, diffText, pc, diff, parseRes, flushed, ret, flLast, inflight>>
    /\ UNCHANGED outsideApp

\* tea.KeyMsg
KeyOf(keys, limit) ==
    /\ Running /\ Sized
    /\ \E key \in keys :
          /\ Len(TypedInto(fileList.searchInput, key)) <= MaxQuery
          /\ (fileList.searching /\ TypedInto(fileList.searchInput, key) # fileList.searchInput) => key \in AppTyped
          /\ \E r \in AppUpdateKey(app, fileList, DiffViewModel, key) :
                /\ r.cmd.type = "FileSelectMsg" => Cardinality(inflight \cup {FileSelectMsg(r.cmd.file)}) <= limit
                /\ app' = r.app
                /\ PanesBecome(r.fl, r.dv)
                /\ inflight' = IF r.cmd.type = "FileSelectMsg" THEN inflight \cup {FileSelectMsg(r.cmd.file)}
                               ELSE inflight
                /\ appLast' = Handled("key", r.cmd.type)
    /\ UNCHANGED <<src, diffText, pc, diff, parseRes, flushed, ret, flLast>>
    /\ UNCHANGED outsideApp

AppKey == KeyOf(AppKeys, MaxInFlight)

\* filelist.FileSelectMsg
AppFileSelect ==
    /\ Running /\ Sized
    /\ \E m \in inflight :
          /\ m.type = "FileSelectMsg"
          /\ \E r \in { setFocus(app, fileList, DiffViewModel, PaneDiffView) } :
                /\ app' = r.app
                /\ PanesBecome(r.fl, r.dv)
          /\ inflight' = (inflight \ {m}) \cup {LoadDiffCmd(app, m.file.Path)}
          /\ appLast' = Requested("FileSelectMsg", "loadDiff", m.file.Path)
    /\ UNCHANGED <<src, diffText, pc, diff, parseRes, flushed, ret, flLast>>
    /\ UNCHANGED outsideApp

\* filesLoadedMsg with an error
AppFilesFailed ==
    /\ Running /\ Sized
    /\ [type |-> "filesLoaded"] \in inflight
    /\ app' = [app EXCEPT !.err = "files"]
    /\ inflight' = inflight \ {[type |-> "filesLoaded"]}
    /\ appLast' = Handled("filesErr", "none")
    /\ UNCHANGED <<diffVars, fileListVars>>
    /\ UNCHANGED outsideApp

\* filesLoadedMsg with the files, the repo and the branches
FilesLoadedOf(lists) ==
    /\ Running /\ Sized
    /\ [type |-> "filesLoaded"] \in inflight
    /\ \E fs \in lists :
          /\ fileList' \in flSetFiles(fileList, fs)
          /\ app' = [app EXCEPT !.files = fs, !.repo = "r1", !.baseBranch = "main"]
          /\ inflight' = (inflight \ {[type |-> "filesLoaded"]})
                            \cup (IF Len(fs) > 0 THEN {[type |-> "loadDiff", path |-> fs[1].Path, repo |-> "r1"]} ELSE {})
          /\ appLast' = IF Len(fs) > 0 THEN Requested("filesLoaded", "loadDiff", fs[1].Path)
                         ELSE Handled("filesLoaded", "none")
    /\ UNCHANGED <<diffVars, flLast>>
    /\ UNCHANGED outsideApp

AppFilesLoaded == FilesLoadedOf(AppFileLists)

\* diffLoadedMsg with an error: the repository is missing or both git commands failed
AppDiffFailed ==
    /\ Running /\ Sized
    /\ \E m \in inflight :
          /\ m.type = "loadDiff"
          /\ app' = diffLoadedErr(app, IF m.repo = NilRepo THEN "repository not loaded" ELSE "diff")
          /\ inflight' = inflight \ {m}
    /\ appLast' = Handled("diffErr", "none")
    /\ UNCHANGED <<diffVars, fileListVars>>
    /\ UNCHANGED outsideApp

\* diffLoadedMsg with a diff: SetDiff
AppDiffLoaded ==
    /\ Running /\ Sized
    /\ \E m \in { l \in inflight : l.type = "loadDiff" } :
          /\ m.repo # NilRepo
          /\ \E s \in { GitDiffOf(m.path) } :
                /\ src' = s
                /\ diffText' = TextOf(s)
                /\ \E r \in { parseDiff(TextOf(s)) } :
                      /\ r.res = "ok"
                      /\ diff' = r.diff
                      /\ parseRes' = r.res
                      /\ \E c \in { convertToSideBySide(r.diff) } :
                            /\ lines' = c.rows
                            /\ flushed' = c.calls
          /\ inflight' = inflight \ {m}
    /\ pc' = "shown"
    /\ offset' = 0
    /\ cursor' = 0
    /\ ret' = NoRet
    /\ app' = diffLoadedOk(app)
    /\ appLast' = Handled("diffLoaded", "none")
    /\ UNCHANGED <<viewMode, height, focused, fileListVars>>
    /\ UNCHANGED outsideApp

NextApp ==
    \/ AppWindowSize
    \/ AppKey
    \/ AppFileSelect
    \/ AppFilesFailed
    \/ AppFilesLoaded
    \/ AppDiffFailed
    \/ AppDiffLoaded

SpecApp == InitApp /\ [][NextApp]_vars

----------------------------------------------------------------------------
\* The loading of diffs: lists of two files, the keys that select a file, up
\* to MaxLoads selections and loads in flight together, and every load answered
\* with the diff of its path
LoadKey == KeyOf(LoadKeys, MaxLoads)

LoadFilesLoaded == FilesLoadedOf(LoadFileLists)

NextLoad ==
    \/ AppWindowSize
    \/ LoadKey
    \/ AppFileSelect
    \/ LoadFilesLoaded
    \/ AppDiffLoaded

SpecLoad == InitApp /\ [][NextLoad]_vars

----------------------------------------------------------------------------
\* convertToSideBySide on its own: SetDiff with a diff of one hunk whose lines
\* are any sequence of the four line types. Line i has the content Itoa(i) and,
\* on the sides it has, the number i.
HunkLine(type, i) ==
    DiffLine(type, <<Itoa(i)>>,
             IF type \in {DiffLineContext, DiffLineDeletion} THEN i ELSE 0,
             IF type \in {DiffLineContext, DiffLineAddition} THEN i ELSE 0)

HunkLineSeqs ==
    UNION { { [i \in 1..n |-> HunkLine(t[i], i)] :
                t \in [1..n -> {DiffLineHeader, DiffLineContext, DiffLineDeletion, DiffLineAddition}] } :
            n \in 0..MaxHunkLines }

InitConvert ==
    /\ \E ls \in HunkLineSeqs :
          diff = [OldPath |-> <<>>, NewPath |-> <<>>, nil |-> FALSE,
                  Hunks |-> << [OldStart |-> 1, OldCount |-> 0, NewStart |-> 1, NewCount |-> 0, Lines |-> ls] >>]
    /\ src = [lines |-> <<>>, nl |-> FALSE]
    /\ diffText = <<>>
    /\ pc = "parsed"
    /\ parseRes = "ok"
    /\ lines = <<>>
    /\ flushed = <<>>
    /\ viewMode = ViewBoth
    /\ offset = 0
    /\ cursor = 0
    /\ height = 0
    /\ focused = FALSE
    /\ ret = NoRet
    /\ fileList = FileListNew
    /\ flLast = NoOp
    /\ changed = NotRun
    /\ picker = PickerNew
    /\ pkLast = NoLoad
    /\ app = AppNew
    /\ inflight = {}
    /\ appLast = NoMsg

NextConvert ==
    \/ SetDiff

SpecConvert == InitConvert /\ [][NextConvert]_vars

----------------------------------------------------------------------------
\* The diff view on its own, focused and at a fixed size: SetDiff, the keys of
\* Update and JumpToLine; and the same with Clear
NavDiffs ==
    { [lines |-> <<>>, nl |-> FALSE],
      [lines |-> <<HdrFull(1, 1, 0, 0), Body("deletion", <<"a">>)>>, nl |-> FALSE],
      [lines |-> <<HdrFull(1, 3, 1, 2), Body("context", <<"a">>), Body("deletion", <<"a">>),
                   Body("deletion", <<"b">>), Body("addition", <<"b">>), Body("context", <<"a">>)>>,
       nl |-> TRUE] }

NavKeys == {"up", "down", "pgup", "pgdown", "home", "end"}
ModeKeys == {"[", "]"}

InitDiffNav ==
    /\ src = [lines |-> <<>>, nl |-> FALSE]
    /\ diffText = <<>>
    /\ pc = "text"
    /\ diff = NilDiff
    /\ parseRes = "none"
    /\ lines = <<>>
    /\ flushed = <<>>
    /\ viewMode = ViewBoth
    /\ offset = 0
    /\ cursor = 0
    /\ height \in { 6 + v : v \in 1..MaxVisible }
    /\ focused = TRUE
    /\ ret = NoRet
    /\ fileList = FileListNew
    /\ flLast = NoOp
    /\ changed = NotRun
    /\ picker = PickerNew
    /\ pkLast = NoLoad
    /\ app = AppNew
    /\ inflight = {}
    /\ appLast = NoMsg

\* SetDiff with the diff parseDiff gives for one of the texts
NavSetDiff ==
    /\ \E s \in NavDiffs :
          /\ src' = s
          /\ diffText' = TextOf(s)
          /\ \E r \in { parseDiff(TextOf(s)) } :
                /\ r.res = "ok"
                /\ diff' = r.diff
                /\ parseRes' = r.res
                /\ \E c \in { convertToSideBySide(r.diff) } :
                      /\ lines' = c.rows
                      /\ flushed' = c.calls
    /\ offset' = 0
    /\ cursor' = 0
    /\ pc' = "shown"
    /\ ret' = [op |-> "set", mode |-> viewMode, out |-> <<>>]
    /\ UNCHANGED <<viewMode, height, focused>>
    /\ UNCHANGED outsideDiff

\* Update on a key
NavKey ==
    /\ \E key \in NavKeys \cup ModeKeys :
          \E dv \in { dvUpdate(DiffViewModel, key) } :
              /\ viewMode' = dv.viewMode
              /\ offset' = dv.offset
              /\ cursor' = dv.cursor
              /\ ret' = [op |-> "key", mode |-> dv.viewMode, out |-> key]
    /\ UNCHANGED <<src, diffText, pc, diff, parseRes, lines, flushed, height, focused>>
    /\ UNCHANGED outsideDiff

\* JumpToLine with an index from one below the first row to one behind the last
NavJumpToLine ==
    /\ \E idx \in (0 - 1)..Len(lines) :
          /\ \E j \in { JumpToLine(lines, height, cursor, offset, idx) } :
                /\ cursor' = j.cursor
                /\ offset' = j.offset
          /\ ret' = [op |-> "jumpTo", mode |-> viewMode, out |-> idx]
    /\ UNCHANGED <<src, diffText, pc, diff, parseRes, lines, flushed, viewMode, height, focused>>
    /\ UNCHANGED outsideDiff

\* Clear
NavClear ==
    /\ diff' = NilDiff
    /\ lines' = <<>>
    /\ offset' = 0
    /\ ret' = [op |-> "clear", mode |-> viewMode, out |-> <<>>]
    /\ UNCHANGED <<src, diffText, pc, parseRes, flushed, viewMode, cursor, height, focused>>
    /\ UNCHANGED outsideDiff

NextDiffNav ==
    \/ NavSetDiff
    \/ NavKey
    \/ NavJumpToLine

SpecDiffNav == InitDiffNav /\ [][NextDiffNav]_vars

NextDiffOps ==
    \/ NavSetDiff
    \/ NavKey
    \/ NavJumpToLine
    \/ NavClear

SpecDiffOps == InitDiffNav /\ [][NextDiffOps]_vars

----------------------------------------------------------------------------
\* Vocabulary of the properties

Parsed == pc # "text"
Shown == pc = "shown"

\* The input starts with a hunk header line whose numbers are written
NumberedHeaderFirst ==
    src.lines # <<>> /\ src.lines[1].k \in {"full", "noOldCount", "noNewCount", "noCounts"}

\* The input is one well-formed hunk: a numbered header declaring at least one line,
\* all of them context, deletion and addition lines (and no-newline markers) in
\* the numbers the header declares
ValidFragment ==
    /\ NumberedHeaderFirst
    /\ src.lines[1].b + src.lines[1].d >= 1
    /\ \A i \in 2..Len(src.lines) : src.lines[i].k \in {"context", "deletion", "addition", "noNewline"}
    /\ CountKind(Tail(src.lines), {"context", "deletion"}) = src.lines[1].b
    /\ CountKind(Tail(src.lines), {"context", "addition"}) = src.lines[1].d

IsOldSide(l) == l.Type = DiffLineContext \/ l.Type = DiffLineDeletion
IsDeletionLine(l) == l.Type = DiffLineDeletion
IsAdditionLine(l) == l.Type = DiffLineAddition
IsPlainLine(l) == l.Type = DiffLineContext \/ l.Type = DiffLineHeader

OldNumbers(ls) == [i \in 1..Len(SelectSeq(ls, IsOldSide)) |-> SelectSeq(ls, IsOldSide)[i].OldLineNum]

RECURSIVE AllLines(_)
AllLines(hs) == IF hs = <<>> THEN <<>> ELSE Head(hs).Lines \o AllLines(Tail(hs))

\* A row of a Context or Header line: both sides of that one kind
IsPlainRow(r) == r.OldType = r.NewType /\ (r.OldType = DiffLineContext \/ r.OldType = DiffLineHeader)
HasDeletion(r) == r.OldType = DiffLineDeletion
HasAddition(r) == r.NewType = DiffLineAddition

OldSideOf(r) == DiffLine(r.OldType, r.OldContent, r.OldLineNum, 0)
NewSideOf(r) == DiffLine(r.NewType, r.NewContent, 0, r.NewLineNum)
PlainOf(r) == DiffLine(r.OldType, r.OldContent, r.OldLineNum, r.NewLineNum)

MapSeq(sq, F(_)) == [i \in 1..Len(sq) |-> F(sq[i])]

HeaderRowOf(l) == Row(0, l.Content, DiffLineHeader, 0, l.Content, DiffLineHeader)
PlainRowOf(l) ==
    IF l.Type = DiffLineHeader THEN HeaderRowOf(l)
    ELSE Row(l.OldLineNum, l.Content, DiffLineContext, l.NewLineNum, l.Content, DiffLineContext)

----------------------------------------------------------------------------
\* C1: a hunk header whose counts are both written, 0 included, yields a hunk
\* with exactly the written starts and counts; a count is 1 only where the
\* header omits it.
C1_WrittenCountsKept ==
    (Parsed /\ NumberedHeaderFirst) =>
        /\ Len(diff.Hunks) >= 1
        /\ diff.Hunks[1].OldStart = src.lines[1].a
        /\ diff.Hunks[1].OldCount = src.lines[1].b
        /\ diff.Hunks[1].NewStart = src.lines[1].c
        /\ diff.Hunks[1].NewCount = src.lines[1].d

\* C2: for a well-formed hunk, also when the text ends with a newline, the old
\* line numbers given to its Context and Deletion lines are exactly
\* oldStart..oldStart+oldCount-1, each once.
C2_OldNumbersAreDeclaredRange ==
    (Parsed /\ ValidFragment) =>
        /\ Len(diff.Hunks) = 1
        /\ OldNumbers(diff.Hunks[1].Lines) = [i \in 1..src.lines[1].b |-> src.lines[1].a + i - 1]

\* C3: parseDiff is total: whatever the text, it returns a FileDiff and a nil
\* error and makes no out-of-range access; a "@@" line without parsable numbers
\* still opens a hunk, with both counts 1.
C3_ParseTotal ==
    Parsed =>
        /\ parseRes = "ok"
        /\ ~diff.nil
        /\ (src.lines # <<>> /\ src.lines[1].k = "badHeader") =>
              /\ Len(diff.Hunks) = 1
              /\ diff.Hunks[1].OldCount = 1
              /\ diff.Hunks[1].NewCount = 1
              /\ diff.Hunks[1].Lines[1] = DiffLine(DiffLineHeader, LineText(src.lines[1]), 0, 0)

\* C3 witness: a text with an unparsable header, an empty line and a line of unknown first character was parsed
C3_Witness ==
    /\ pc = "parsed"
    /\ parseRes = "ok"
    /\ Len(src.lines) = 3
    /\ src.lines[1].k = "badHeader"
    /\ src.lines[2].k = "empty"
    /\ src.lines[3].k = "other"

\* C4: convertToSideBySide represents every line of the hunks exactly once: the
\* deletions are the old sides of the deletion rows, the additions the new sides
\* of the addition rows, the Context and Header lines the rows with two equal
\* sides, each in order; so filled old sides + filled new sides - plain rows =
\* number of lines.
C4_EveryLineOnce ==
    Shown =>
        /\ MapSeq(SelectSeq(lines, HasDeletion), OldSideOf) = SelectSeq(AllLines(diff.Hunks), IsDeletionLine)
        /\ MapSeq(SelectSeq(lines, HasAddition), NewSideOf) = SelectSeq(AllLines(diff.Hunks), IsAdditionLine)
        /\ SelectSeq(lines, IsPlainRow) = MapSeq(SelectSeq(AllLines(diff.Hunks), IsPlainLine), PlainRowOf)
        /\ \A i \in 1..Len(lines) : IsPlainRow(lines[i]) \/ HasDeletion(lines[i]) \/ HasAddition(lines[i])
        /\ (Len(SelectSeq(lines, HasDeletion)) + Len(SelectSeq(lines, IsPlainRow)))
           + (Len(SelectSeq(lines, HasAddition)) + Len(SelectSeq(lines, IsPlainRow)))
           - Len(SelectSeq(lines, IsPlainRow)) = Len(AllLines(diff.Hunks))

\* C4 witness: a hunk with a context line, more deletions than additions or the reverse, shown
C4_Witness ==
    /\ Shown
    /\ Len(SelectSeq(lines, HasDeletion)) >= 1
    /\ Len(SelectSeq(lines, HasAddition)) >= 1
    /\ Len(SelectSeq(lines, HasDeletion)) # Len(SelectSeq(lines, HasAddition))
    /\ \E i \in 1..Len(lines) : lines[i].OldType = DiffLineContext /\ lines[i].NewType = DiffLineContext

----------------------------------------------------------------------------
\* Positions in the one hunk of the diff
HunkLines == diff.Hunks[1].Lines

\* Where the deletion with old number n, the addition with new number n, stands in the hunk
PosOfDeletion(n) == CHOOSE k \in 1..Len(HunkLines) : HunkLines[k].Type = DiffLineDeletion /\ HunkLines[k].OldLineNum = n
PosOfAddition(n) == CHOOSE k \in 1..Len(HunkLines) : HunkLines[k].Type = DiffLineAddition /\ HunkLines[k].NewLineNum = n

\* First and last position of the maximal run of lines of one kind around position k
RunFirst(k) == CHOOSE j \in 1..k :
    /\ \A m \in j..k : HunkLines[m].Type = HunkLines[k].Type
    /\ (j = 1 \/ HunkLines[j - 1].Type # HunkLines[k].Type)
RunLast(k) == CHOOSE j \in k..Len(HunkLines) :
    /\ \A m \in k..j : HunkLines[m].Type = HunkLines[k].Type
    /\ (j = Len(HunkLines) \/ HunkLines[j + 1].Type # HunkLines[k].Type)

\* Row r holds a deletion beside an addition of the run that immediately follows
\* the deletion's run, at the same index in its run
PairedWithFollowingRun(r) ==
    /\ PosOfDeletion(r.OldLineNum) < PosOfAddition(r.NewLineNum)
    /\ RunFirst(PosOfAddition(r.NewLineNum)) = RunLast(PosOfDeletion(r.OldLineNum)) + 1
    /\ PosOfDeletion(r.OldLineNum) - RunFirst(PosOfDeletion(r.OldLineNum))
         = PosOfAddition(r.NewLineNum) - RunFirst(PosOfAddition(r.NewLineNum))

\* C5: whatever the order of a hunk's Deletion and Addition lines, a row pairs a
\* deletion only with the addition at the same index of the run of additions
\* that immediately follows the deletion's run; never with an addition that
\* stands before the deletion, or behind other additions and deletions.
C5_PairsOnlyFollowingRun ==
    (Shown /\ NumberedHeaderFirst /\ Len(diff.Hunks) = 1) =>
        \A i \in 1..Len(lines) :
            (HasDeletion(lines[i]) /\ HasAddition(lines[i])) => PairedWithFollowingRun(lines[i])

\* C6: a flush of d buffered deletions and a buffered additions returns
\* max(d, a) rows; row i holds deletion i (its old number, its content) when
\* i <= d and addition i (its new number, its content) when i <= a; a missing
\* side has number 0 and empty content.
C6_FlushShape ==
    \A n \in 1..Len(flushed) :
        /\ Len(flushed[n].rows) = Max(Len(flushed[n].deletions), Len(flushed[n].additions))
        /\ \A i \in 1..Len(flushed[n].rows) :
              /\ IF i <= Len(flushed[n].deletions)
                 THEN /\ flushed[n].rows[i].OldLineNum = flushed[n].deletions[i].OldLineNum
                      /\ flushed[n].rows[i].OldContent = flushed[n].deletions[i].Content
                      /\ flushed[n].rows[i].OldType = DiffLineDeletion
                 ELSE /\ flushed[n].rows[i].OldLineNum = 0
                      /\ flushed[n].rows[i].OldContent = <<>>
              /\ IF i <= Len(flushed[n].additions)
                 THEN /\ flushed[n].rows[i].NewLineNum = flushed[n].additions[i].NewLineNum
                      /\ flushed[n].rows[i].NewContent = flushed[n].additions[i].Content
                      /\ flushed[n].rows[i].NewType = DiffLineAddition
                 ELSE /\ flushed[n].rows[i].NewLineNum = 0
                      /\ flushed[n].rows[i].NewContent = <<>>

\* C6 witness: a flush of two deletions and three additions
C6_Witness ==
    /\ Shown
    /\ \E n \in 1..Len(flushed) : Len(flushed[n].deletions) = 2 /\ Len(flushed[n].additions) = 3

----------------------------------------------------------------------------
\* The scenario text: @@ -10,3 +10,4 @@, context, two deletions, three additions, context
IsScenario == src \in ScenarioInputs

ScenarioContent(i) == src.lines[i + 1].content

\* The five rows the scenario's body lines give, rows[first] .. rows[first + 4]
ScenarioBodyRows(first) ==
    /\ lines[first] = Row(10, ScenarioContent(1), DiffLineContext, 10, ScenarioContent(1), DiffLineContext)
    /\ lines[first + 1] = Row(11, ScenarioContent(2), DiffLineDeletion, 11, ScenarioContent(4), DiffLineAddition)
    /\ lines[first + 2] = Row(12, ScenarioContent(3), DiffLineDeletion, 12, ScenarioContent(5), DiffLineAddition)
    /\ lines[first + 3] = Row(0, <<>>, DiffLineContext, 13, ScenarioContent(6), DiffLineAddition)
    /\ lines[first + 4] = Row(13, ScenarioContent(7), DiffLineContext, 14, ScenarioContent(7), DiffLineContext)

\* C7 as stated: the scenario text, parsed and aligned, is exactly 5 rows:
\* a context row, two rows with both sides, a row with only the new side, a
\* context row.
C7_ScenarioFiveRows ==
    (Shown /\ IsScenario) => (Len(lines) = 5 /\ ScenarioBodyRows(1))

\* C7 amended: the scenario text (its 8 lines joined by newlines), parsed and
\* aligned, is exactly 6 rows: the row of the header line, both sides the raw
\* header text and numbers 0, then the 5 rows: a context row, two rows with both
\* sides (deletion i beside addition i), a row with only the new side, a
\* context row; when the text ends with a newline a 7th row follows, an empty
\* context row numbered 14 and 15.
C7_ScenarioHeaderRowAndFive ==
    (Shown /\ IsScenario) =>
        /\ Len(lines) = (IF src.nl THEN 7 ELSE 6)
        /\ lines[1] = Row(0, LineText(src.lines[1]), DiffLineHeader, 0, LineText(src.lines[1]), DiffLineHeader)
        /\ ScenarioBodyRows(2)
        /\ src.nl => lines[7] = Row(14, <<>>, DiffLineContext, 15, <<>>, DiffLineContext)

\* C7 witness: the scenario text was parsed and aligned
C7_Witness == Shown /\ IsScenario /\ ~src.nl /\ Len(diff.Hunks) = 1 /\ Len(diff.Hunks[1].Lines) = 8

----------------------------------------------------------------------------
\* The returned value is GetSearchableLines' / View's in the given view mode
Searched(mode) == ret.op = "search" /\ ret.mode = mode
Drawn(mode) == ret.op = "view" /\ ret.mode = mode

\* The row a returned line was produced from
RowOf(l) == lines[l.OrigIdx + 1]
RowDrawn(l) == lines[l.origIdx + 1]

\* A row with a deletion and no addition beside it; with an addition and no deletion
IsPureDeletion(r) == HasDeletion(r) /\ ~HasAddition(r)
IsPureAddition(r) == HasAddition(r) /\ ~HasDeletion(r)
HasNewSide(r) == HasAddition(r) \/ IsPlainRow(r)
HasOldSide(r) == HasDeletion(r) \/ IsPlainRow(r)

\* C8: the New-only projection (GetSearchableLines and renderSingleView with
\* showNew) holds no line of kind Deletion, the Old-only projection none of kind
\* Addition.
C8_NoForeignKind ==
    /\ Searched(ViewNew) => \A k \in 1..Len(ret.out) : ret.out[k].Type # "del"
    /\ Searched(ViewOld) => \A k \in 1..Len(ret.out) : ret.out[k].Type # "add"
    /\ Drawn(ViewNew) => \A k \in 1..Len(ret.out) : ret.out[k].lineType # DiffLineDeletion
    /\ Drawn(ViewOld) => \A k \in 1..Len(ret.out) : ret.out[k].lineType # DiffLineAddition

\* C8 witness: the New-only searchable lines hold a line that comes from a row with a deletion and no addition
C8_Witness ==
    /\ Searched(ViewNew)
    /\ Len(ret.out) >= 2
    /\ \E k \in 1..Len(ret.out) : IsPureDeletion(RowOf(ret.out[k]))

\* C9: in New-only mode a pure-deletion row produces no line, so the projection
\* has one line per row with a new side and none for the others; in Old-only
\* mode likewise a pure-addition row produces none.
C9_PureRowsSkipped ==
    /\ Searched(ViewNew) =>
          /\ \A k \in 1..Len(ret.out) : ~IsPureDeletion(RowOf(ret.out[k]))
          /\ Len(ret.out) = Len(SelectSeq(lines, HasNewSide))
    /\ Searched(ViewOld) =>
          /\ \A k \in 1..Len(ret.out) : ~IsPureAddition(RowOf(ret.out[k]))
          /\ Len(ret.out) = Len(SelectSeq(lines, HasOldSide))
    /\ Drawn(ViewNew) => \A k \in 1..Len(ret.out) : ~IsPureDeletion(RowDrawn(ret.out[k]))
    /\ Drawn(ViewOld) => \A k \in 1..Len(ret.out) : ~IsPureAddition(RowDrawn(ret.out[k]))

----------------------------------------------------------------------------
\* A side of a row is listed when it has content or a nonzero line number
OldListed(r) == r.OldContent # <<>> \/ r.OldLineNum > 0
NewListed(r) == r.NewContent # <<>> \/ r.NewLineNum > 0
SidesIdentical(r) == r.NewContent = r.OldContent /\ r.NewType = r.OldType

KindName(t) == CASE t = DiffLineAddition -> "add" [] t = DiffLineDeletion -> "del"
                 [] t = DiffLineHeader -> "header" [] OTHER -> "context"

OldLineOf(r, i) == [LineNum |-> r.OldLineNum, Content |-> r.OldContent, Type |-> KindName(r.OldType), OrigIdx |-> i]
NewLineOf(r, i) == [LineNum |-> r.NewLineNum, Content |-> r.NewContent, Type |-> KindName(r.NewType), OrigIdx |-> i]

\* The returned lines that come from row i (0-based)
LinesOfRow(i) == SelectSeq(ret.out, LAMBDA l : l.OrigIdx = i)

\* The rule of Both mode for row i: old side if listed, then new side if listed and not identical
BothRule(i) ==
    LinesOfRow(i - 1) =
        (IF OldListed(lines[i]) THEN <<OldLineOf(lines[i], i - 1)>> ELSE <<>>)
        \o (IF NewListed(lines[i]) /\ ~SidesIdentical(lines[i]) THEN <<NewLineOf(lines[i], i - 1)>> ELSE <<>>)

\* C10 as stated: in Both mode each row gives its old side if listed, then its
\* new side if listed and not identical to the old; a Context or Header row
\* gives exactly one line, a paired row exactly two, a one-sided row exactly one.
C10_BothCounts ==
    Searched(ViewBoth) =>
        \A i \in 1..Len(lines) :
            /\ BothRule(i)
            /\ IsPlainRow(lines[i]) => Len(LinesOfRow(i - 1)) = 1
            /\ (HasDeletion(lines[i]) /\ HasAddition(lines[i])) => Len(LinesOfRow(i - 1)) = 2
            /\ (IsPureDeletion(lines[i]) \/ IsPureAddition(lines[i])) => Len(LinesOfRow(i - 1)) = 1

\* C10 amended: in Both mode each row gives its old side if listed, then its
\* new side if listed and not identical to the old; a Header row gives exactly
\* one line; a Context row gives one line when its content is not empty or its
\* old number is not 0, and none otherwise; a paired row gives two when both
\* sides are listed; a one-sided row gives one when its side is listed, and no
\* row gives more than two.
C10_BothCountsWhenListed ==
    Searched(ViewBoth) =>
        /\ \A k \in 1..Len(ret.out) : ret.out[k].OrigIdx \in 0..(Len(lines) - 1)
        /\ \A i \in 1..Len(lines) :
            /\ BothRule(i)
            /\ Len(LinesOfRow(i - 1)) <= 2
            /\ (IsPlainRow(lines[i]) /\ lines[i].OldType = DiffLineHeader) => Len(LinesOfRow(i - 1)) = 1
            /\ IsPlainRow(lines[i]) => Len(LinesOfRow(i - 1)) = (IF OldListed(lines[i]) THEN 1 ELSE 0)
            /\ (HasDeletion(lines[i]) /\ HasAddition(lines[i]) /\ OldListed(lines[i]) /\ NewListed(lines[i]))
                  => Len(LinesOfRow(i - 1)) = 2
            /\ (IsPureDeletion(lines[i]) /\ OldListed(lines[i])) => Len(LinesOfRow(i - 1)) = 1
            /\ (IsPureAddition(lines[i]) /\ NewListed(lines[i])) => Len(LinesOfRow(i - 1)) = 1

\* C10 witness: the Both-mode searchable lines of the scenario's rows: plain, paired and one-sided rows
C10_Witness ==
    /\ Searched(ViewBoth)
    /\ IsScenario
    /\ Len(lines) = 6
    /\ Len(ret.out) = 8

----------------------------------------------------------------------------
\* A returned line is one of the two sides of the row its OrigIdx names
FromItsRow(l) ==
    /\ l.OrigIdx \in 0..(Len(lines) - 1)
    /\ l = OldLineOf(lines[l.OrigIdx + 1], l.OrigIdx) \/ l = NewLineOf(lines[l.OrigIdx + 1], l.OrigIdx)

\* C11: in every view mode each line GetSearchableLines returns carries the
\* index of the row it was produced from, within [0, number of rows), the
\* indices never decrease along the output, and JumpToLine on a hit's OrigIdx
\* leaves the cursor on that row.
C11_OrigIdxIsRowIndex ==
    /\ ret.op = "search" =>
          /\ \A k \in 1..Len(ret.out) : FromItsRow(ret.out[k])
          /\ \A k \in 1..(Len(ret.out) - 1) : ret.out[k].OrigIdx <= ret.out[k + 1].OrigIdx
    /\ ret.op = "jump" => (FromItsRow(ret.out[1]) /\ cursor = ret.out[1].OrigIdx)

\* C11 witness: a jump to a hit beyond the first row, in a single-side view mode
C11_Witness ==
    /\ ret.op = "jump"
    /\ ret.mode # ViewBoth
    /\ ret.out[1].OrigIdx >= 2
    /\ cursor = ret.out[1].OrigIdx

----------------------------------------------------------------------------
\* Vocabulary of the file-list properties

\* Index i (0-based) is inside the display list and names a file item
OnFile(i) ==
    /\ i >= 0 /\ i < Len(fileList.displayItems)
    /\ ~fileList.displayItems[i + 1].IsHeader

Grouped == fileList.viewMode = ViewFolder \/ fileList.viewMode = ViewType

\* C12: in Folder or Type mode, with a file in the display list, after a
\* cursor-movement key (Up, Down, Home, End, PageUp, PageDown) neither the
\* cursor nor the selected index rests on a header item.
C12_MovementSkipsHeaders ==
    (flLast.op = "move" /\ Grouped /\ HasFile(fileList.displayItems)) =>
        (OnFile(fileList.cursor) /\ OnFile(fileList.selected))

\* C13: after a change of the search query (a character typed or deleted, the
\* query cleared with Esc) and after a view-mode switch, if the rebuilt display
\* list holds a file then the cursor and the selected index are inside the list
\* on a file item.
C13_RebuildResolvesToFile ==
    (flLast.op \in {"query", "esc", "modeNext", "modePrev"} /\ HasFile(fileList.displayItems)) =>
        (OnFile(fileList.cursor) /\ OnFile(fileList.selected))

----------------------------------------------------------------------------
\* The folder a file item of the display list stands under
FolderOfItem(i) == FolderOf(fileList.displayItems[i].File)

\* Folder e lies below folder d
IsSubfolder(e, d) == e # d /\ (d = <<"/">> \/ HasPrefix(e, d \o <<"/">>))

Headers == { i \in 1..Len(fileList.displayItems) : fileList.displayItems[i].IsHeader }
FilePositions == { i \in 1..Len(fileList.displayItems) : ~fileList.displayItems[i].IsHeader }

\* C14: in Folder mode, whatever the order of the files handed over, the
\* folders come in ascending order by name, the files of one folder are in
\* ascending order by name, and at every directory level what lies in the
\* subdirectories is listed before the files of the directory itself.
C14_FolderOrdering ==
    (fileList.viewMode = ViewFolder /\ fileList.searchQuery = <<>>) =>
        /\ \A i, j \in Headers :
              i < j => LessStr(fileList.displayItems[i].Header, fileList.displayItems[j].Header)
        /\ \A i, j \in FilePositions :
              (i < j /\ FolderOfItem(i) = FolderOfItem(j))
                  => LessStr(fileList.displayItems[i].File.Path, fileList.displayItems[j].File.Path)
        /\ \A i, j \in FilePositions :
              IsSubfolder(FolderOfItem(j), FolderOfItem(i)) => j < i

----------------------------------------------------------------------------
\* The folders marked as expanded: filelist.Model has no field that holds any
ExpandedPaths == {}

\* C15: in Folder mode a folder whose path is not among the expanded paths
\* shows its header and none of its files: the item after its header, if any,
\* is the next header.
C15_CollapsedFolderOmitsChildren ==
    fileList.viewMode = ViewFolder =>
        \A i \in Headers :
            fileList.displayItems[i].Header \notin ExpandedPaths
                => (i = Len(fileList.displayItems) \/ fileList.displayItems[i + 1].IsHeader)

----------------------------------------------------------------------------
\* The group names of Type mode in their order, and the statuses filed under each
GroupNames == <<"Modified", "Added", "Deleted">>
GroupRank(name) == CHOOSE k \in 1..3 : GroupNames[k] = name
InGroup(f, name) ==
    IF name = "Added" THEN f.Status = "A"
    ELSE IF name = "Deleted" THEN f.Status = "D"
    ELSE f.Status \notin {"A", "D"}

HeaderName(i) == fileList.displayItems[i].Header[1]
HeaderCount(i) == Atoi(fileList.displayItems[i].Header[4])

\* The positions of the file items of the group whose name is given
GroupMembers(name) == { j \in FilePositions : InGroup(fileList.displayItems[j].File, name) }

\* C16: in Type mode the display list is made of groups in the order Modified,
\* Added, Deleted; a file of any other status is in the Modified group; a
\* group without member is left out with its header; each group is one header
\* "<name> (<count>)", the count being the number of its files, followed by
\* exactly those files.
C16_TypeGroups ==
    fileList.viewMode = ViewType =>
        /\ fileList.displayItems # <<>> => fileList.displayItems[1].IsHeader
        /\ \A i \in Headers :
              /\ fileList.displayItems[i].Header
                    = <<HeaderName(i), " ", "(", Itoa(Cardinality(GroupMembers(HeaderName(i)))), ")">>
              /\ HeaderName(i) \in {"Modified", "Added", "Deleted"}
              /\ HeaderCount(i) >= 1
              /\ GroupMembers(HeaderName(i)) = (i + 1)..(i + HeaderCount(i))
        /\ \A i, j \in Headers : i < j => GroupRank(HeaderName(i)) < GroupRank(HeaderName(j))

\* C16 witness: Type mode shows a renamed file under Modified and a second group after it
C16_Witness ==
    /\ fileList.viewMode = ViewType
    /\ Cardinality(Headers) >= 2
    /\ \E j \in FilePositions :
          fileList.displayItems[j].File.Status = "R" /\ j \in GroupMembers("Modified") /\ HeaderName(1) = "Modified"

\* The file items of a list of files, one per file in the same order
ItemsInOrder(fs) == [i \in 1..Len(fs) |-> [IsHeader |-> FALSE, Header |-> <<>>, File |-> fs[i]]]

\* C17: in Raw mode the display list has no header and is exactly one item per
\* file handed to the builder, in the order of that list: the file list itself
\* without a query, the ranked matches with one.
C17_RawKeepsOrder ==
    fileList.viewMode = ViewRaw =>
        /\ Headers = {}
        /\ fileList.searchQuery = <<>> => fileList.displayItems = ItemsInOrder(fileList.files)
        /\ \E fs \in Filtered(fileList) : fileList.displayItems = ItemsInOrder(fs)

\* C17 witness: Raw mode over two files that are not in ascending order
C17_Witness ==
    /\ fileList.viewMode = ViewRaw
    /\ fileList.searchQuery = <<>>
    /\ Len(fileList.displayItems) = 2
    /\ LessStr(fileList.files[2].Path, fileList.files[1].Path)

\* C18: a rebuild of the display list from the same files in the same view
\* mode, with no query, gives the same items in the same order as the build
\* before it, in Folder, Type and Raw mode.
C18_RebuildIsStable ==
    flLast.rebuiltSame => fileList.displayItems = flLast.prev

\* C18 witness: a rebuild from the same files in Folder mode with two folders
C18_Witness ==
    /\ flLast.rebuiltSame
    /\ fileList.viewMode = ViewFolder
    /\ Cardinality(Headers) = 2
    /\ Len(flLast.prev) = 4

----------------------------------------------------------------------------
\* The last field of a line, fields being separated by white space
LastField(line) == Fields(line)[Len(Fields(line))]

IsRenameLine(e) == Head(e.status) = "R" /\ HasOldPath(e)

\* C19: a name-status line with status R<score>, an old path and a new path
\* yields a ChangedFile with Status Renamed, OldPath the old path and Path the
\* new path; a line of any other status yields a ChangedFile with an empty
\* OldPath and the last field of the line as Path.
C19_RenameAndOtherLines ==
    (changed.ran /\ ~changed.err) =>
        /\ Len(changed.files) = Len(changed.entries)
        /\ \A i \in 1..Len(changed.entries) :
              IF IsRenameLine(changed.entries[i])
              THEN /\ changed.files[i].Status = StatusRenamed
                   /\ changed.files[i].OldPath = changed.entries[i].old
                   /\ changed.files[i].Path = changed.entries[i].new
              ELSE /\ changed.files[i].OldPath = <<>>
                   /\ changed.files[i].Path = LastField(NameStatusLine(changed.entries[i]))

----------------------------------------------------------------------------
\* C20: loadDiff never returns a diff computed for another repository or base
\* branch than the ones installed when it is called: after SetRepo installs a
\* different base, a path loaded before gets a diff against the new base (or none).
C20_CacheFollowsRevisions ==
    (pkLast.called /\ pkLast.diff # NoFileDiff) =>
        /\ pkLast.diff.repo = pkLast.repo
        /\ pkLast.diff.base = pkLast.base
        /\ pkLast.diff.path = pkLast.path

----------------------------------------------------------------------------
\* The lines of the text handed to parseDiff, and those that begin with "@@"
InputLines == Split(diffText)
StartsHunk(l) == HasPrefix(l, <<"@", "@">>)
HeaderPositions == { i \in 1..Len(InputLines) : StartsHunk(InputLines[i]) }
FirstHeader == CHOOSE i \in HeaderPositions : \A j \in HeaderPositions : i <= j

IsNewSide(l) == l.Type = DiffLineContext \/ l.Type = DiffLineAddition
IsHeaderLine(l) == l.Type = DiffLineHeader

\* The input line a DiffLine stands for: its marker, then its content
MarkerOf(l) ==
    IF l.Type = DiffLineAddition THEN <<"+">> ELSE IF l.Type = DiffLineDeletion THEN <<"-">> ELSE <<" ">>

StandsFor(l, inputLine) ==
    IF l.Type = DiffLineHeader THEN inputLine = l.Content
    ELSE \/ inputLine = MarkerOf(l) \o l.Content
         \/ l.Type = DiffLineContext /\ l.Content = <<>> /\ inputLine = <<>>

\* Every parsed line stands for an input line of its own, in input order
RECURSIVE EachFromInput(_, _)
EachFromInput(parsed, input) ==
    IF parsed = <<>> THEN TRUE
    ELSE IF input = <<>> THEN FALSE
    ELSE IF StandsFor(Head(parsed), Head(input)) THEN EachFromInput(Tail(parsed), Tail(input))
    ELSE EachFromInput(parsed, Tail(input))

\* C27: in every parsed hunk the k-th old-side line (Context or Deletion) has
\* OldLineNum = OldStart + k - 1 and the k-th new-side line (Context or
\* Addition) has NewLineNum = NewStart + k - 1; an Addition has OldLineNum 0, a
\* Deletion NewLineNum 0, the Header both 0; the content of a line is its
\* input line without the one-character marker.
C27_NumbersRunFromStarts ==
    Parsed =>
        /\ \A j \in 1..Len(diff.Hunks) :
              /\ \A k \in 1..Len(SelectSeq(diff.Hunks[j].Lines, IsOldSide)) :
                    SelectSeq(diff.Hunks[j].Lines, IsOldSide)[k].OldLineNum = diff.Hunks[j].OldStart + k - 1
              /\ \A k \in 1..Len(SelectSeq(diff.Hunks[j].Lines, IsNewSide)) :
                    SelectSeq(diff.Hunks[j].Lines, IsNewSide)[k].NewLineNum = diff.Hunks[j].NewStart + k - 1
              /\ \A i \in 1..Len(diff.Hunks[j].Lines) :
                    /\ IsAdditionLine(diff.Hunks[j].Lines[i]) => diff.Hunks[j].Lines[i].OldLineNum = 0
                    /\ IsDeletionLine(diff.Hunks[j].Lines[i]) => diff.Hunks[j].Lines[i].NewLineNum = 0
                    /\ IsHeaderLine(diff.Hunks[j].Lines[i]) =>
                          diff.Hunks[j].Lines[i].OldLineNum = 0 /\ diff.Hunks[j].Lines[i].NewLineNum = 0
        /\ EachFromInput(AllLines(diff.Hunks), InputLines)

\* C27 witness: a parsed hunk that starts at old line 3 and holds a deletion and a second old-side line
C27_Witness ==
    /\ Parsed
    /\ \E j \in 1..Len(diff.Hunks) :
          /\ diff.Hunks[j].OldStart = 3
          /\ Len(SelectSeq(diff.Hunks[j].Lines, IsOldSide)) = 2
          /\ Len(SelectSeq(diff.Hunks[j].Lines, IsDeletionLine)) >= 1
          /\ Len(SelectSeq(diff.Hunks[j].Lines, IsNewSide)) >= 1

\* The input position of the j-th line that begins with "@@"
HeaderPosition(j) == CHOOSE i \in HeaderPositions : Cardinality({ k \in HeaderPositions : k <= i }) = j

\* C28: every input line that begins with "@@" closes the open hunk and opens
\* a new one: there are as many hunks as such lines, in input order; the first
\* line of a hunk is a Header line with the raw header line as content, no
\* other line of the hunk is a Header, and the numbering of the hunk restarts
\* at the start values of its header.
C28_HeaderOpensHunk ==
    Parsed =>
        /\ Len(diff.Hunks) = Cardinality(HeaderPositions)
        /\ \A j \in 1..Len(diff.Hunks) :
              /\ diff.Hunks[j].Lines # <<>>
              /\ IsHeaderLine(diff.Hunks[j].Lines[1])
              /\ diff.Hunks[j].Lines[1].Content = InputLines[HeaderPosition(j)]
              /\ \A i \in 2..Len(diff.Hunks[j].Lines) : ~IsHeaderLine(diff.Hunks[j].Lines[i])
              /\ InputLines[HeaderPosition(j)] = LineText(HdrFull(3, 2, 5, 2)) =>
                    diff.Hunks[j].OldStart = 3 /\ diff.Hunks[j].NewStart = 5
              /\ InputLines[HeaderPosition(j)] = LineText(HdrBad) =>
                    diff.Hunks[j].OldStart = 0 /\ diff.Hunks[j].NewStart = 0
              /\ SelectSeq(diff.Hunks[j].Lines, IsOldSide) # <<>> =>
                    SelectSeq(diff.Hunks[j].Lines, IsOldSide)[1].OldLineNum = diff.Hunks[j].OldStart
              /\ SelectSeq(diff.Hunks[j].Lines, IsNewSide) # <<>> =>
                    SelectSeq(diff.Hunks[j].Lines, IsNewSide)[1].NewLineNum = diff.Hunks[j].NewStart

\* C28 witness: two hunks of different start values, the second with a body line
C28_Witness ==
    /\ Parsed
    /\ Len(diff.Hunks) = 2
    /\ diff.Hunks[1].OldStart # diff.Hunks[2].OldStart
    /\ Len(diff.Hunks[2].Lines) = 2
    /\ ~IsHeaderLine(diff.Hunks[2].Lines[2])

\* C29: a text without a line that begins with "@@" yields a FileDiff without
\* hunks, whatever "+", "-" and space lines it holds; the empty text yields
\* empty paths and no hunk.
C29_NoHeaderNoHunk ==
    (Parsed /\ HeaderPositions = {}) =>
        /\ ~diff.nil
        /\ diff.Hunks = <<>>
        /\ diffText = <<>> => diff.OldPath = <<>> /\ diff.NewPath = <<>>

\* C29 witness: a parsed text of an addition, a deletion and a context line and no "@@" line
C29_Witness ==
    /\ Parsed
    /\ HeaderPositions = {}
    /\ \E i, j, k \in 1..Len(InputLines) :
          /\ InputLines[i] = <<"+", "b">>
          /\ InputLines[j] = <<"-", "a">>
          /\ InputLines[k] = <<" ", "a">>

\* The lines before the first "@@" line, and the path the last "---" or "+++"
\* line among them names
Prelude == IF HeaderPositions = {} THEN InputLines ELSE SubSeq(InputLines, 1, FirstHeader - 1)

PathNamed(marker, prefix) ==
    LET named == { i \in 1..Len(Prelude) : HasPrefix(Prelude[i], marker) /\ Len(SplitN2(Prelude[i])) > 1 }
    IN IF named = {} THEN <<>>
       ELSE TrimPrefix(SplitN2(Prelude[CHOOSE i \in named : \A j \in named : j <= i])[2], prefix)

\* The input lines after the first "@@" line whose first character is c
ChangedAfterHeader(c) ==
    { i \in 1..Len(InputLines) : HeaderPositions # {} /\ i > FirstHeader /\ InputLines[i] # <<>> /\ InputLines[i][1] = c }

\* C30: once a hunk is open every input line whose first character is "-" or
\* "+" is one Deletion or Addition DiffLine (none is dropped or taken for a
\* file-path line), and OldPath and NewPath come only from the "---" and "+++"
\* lines before the first hunk header.
C30_ChangedLinesKept ==
    Parsed =>
        /\ Len(SelectSeq(AllLines(diff.Hunks), IsDeletionLine)) = Cardinality(ChangedAfterHeader("-"))
        /\ Len(SelectSeq(AllLines(diff.Hunks), IsAdditionLine)) = Cardinality(ChangedAfterHeader("+"))
        /\ diff.OldPath = PathNamed(<<"-", "-", "-">>, <<"a", "/">>)
        /\ diff.NewPath = PathNamed(<<"+", "+", "+">>, <<"b", "/">>)

----------------------------------------------------------------------------
\* C23: with a filter active (a query that is not empty), Esc in the focused
\* file list clears it, while the search input is open and after Enter kept
\* the filter: afterwards the query is empty and the display list holds every
\* file.
C23_EscClearsFilter ==
    flLast.op \in {"esc", "escKept"} =>
        /\ fileList.searchQuery = <<>>
        /\ fileList.searchInput = <<>>
        /\ Cardinality(FilePositions) = Len(fileList.files)

----------------------------------------------------------------------------
\* The index of the first file item of the display list
FirstFileIndex == CHOOSE i \in 0..(Len(fileList.displayItems) - 1) :
    OnFile(i) /\ \A j \in 0..(i - 1) : ~OnFile(j)

\* One press of "]" or "[": the mode moves one place in the cycle Folder,
\* Type, Raw, Folder
BracketStep ==
    /\ flLast'.op = "modeNext" => fileList'.viewMode = (fileList.viewMode + 1) % 3
    /\ flLast'.op = "modePrev" => fileList'.viewMode = (fileList.viewMode + 2) % 3

\* C26: the file list starts in Folder mode; "]" moves the mode one place
\* forward and "[" one place backward in the cycle Folder, Type, Raw with
\* wrap-around (so three presses of one key, or "]" then "[", restore the
\* mode); every switch leaves the display list of the new mode, the offset 0
\* and the cursor on the first file item.
C26_ModeCycle ==
    /\ fileList.viewMode = ViewFolder
    /\ [][BracketStep]_vars
    /\ [](flLast.op \in {"modeNext", "modePrev"} =>
            /\ fileList.offset = 0
            /\ \E fs \in Filtered(fileList) : fileList.displayItems \in Build(fileList.viewMode, fs)
            /\ HasFile(fileList.displayItems) => fileList.cursor = FirstFileIndex)

\* C26 witness: "]" in Raw mode has wrapped around to Folder mode, two files under their header
C26_Witness ==
    /\ flLast.op = "modeNext"
    /\ fileList.viewMode = ViewFolder
    /\ Len(fileList.files) = 2
    /\ fileList.cursor = 1

\* ---------------------------------------------------------------------------
\* The application: focus, quit, file selection and diff loading

\* C22: in every reachable state of the running application, whichever pane
\* is focused, whether or not the search input is open and whether or not an
\* error is recorded, "q" and "ctrl+c" make Update return the quit command.
C22_QuitIsGlobal ==
    (Running /\ Sized) =>
        \A key \in {"q", "ctrl+c"} :
            \A r \in AppUpdateKey(app, fileList, DiffViewModel, key) : r.cmd = QuitCmd

\* What a focus switch to the given pane leaves behind
FocusIs(r, pane) ==
    /\ r.app.focusedPane = pane
    /\ r.fl.focused = (pane = PaneFileList)
    /\ r.dv.focused = (pane = PaneDiffView)

\* C25: with the diff pane focused, "esc" and "left" always move the focus to
\* the file list; with the file list focused and the search input closed,
\* "right" moves the focus to the diff pane; while the search input is open,
\* "left" and "right" leave the focused pane as it is.
C25_FocusKeys ==
    (Running /\ Sized) =>
        /\ app.focusedPane = PaneDiffView =>
              \A key \in {"esc", "left"} :
                  \A r \in AppUpdateKey(app, fileList, DiffViewModel, key) : FocusIs(r, PaneFileList)
        /\ (app.focusedPane = PaneFileList /\ ~fileList.searching) =>
              \A r \in AppUpdateKey(app, fileList, DiffViewModel, "right") : FocusIs(r, PaneDiffView)
        /\ fileList.searching =>
              \A key \in {"left", "right"} :
                  \A r \in AppUpdateKey(app, fileList, DiffViewModel, key) : FocusIs(r, app.focusedPane)

\* A key pressed with the diff pane focused and a diff shown has moved the
\* focus back to the file list
C25_Witness ==
    /\ appLast.msg = "key"
    /\ appLast.paneBefore = PaneDiffView
    /\ app.focusedPane = PaneFileList
    /\ fileList.focused /\ ~focused
    /\ lines # <<>>

\* The delivery of a FileSelectMsg: the focus is on the diff pane and the
\* message is replaced in flight by the load of the diff of its file's path
SelectDelivered ==
    appLast'.msg = "FileSelectMsg" =>
        /\ app'.focusedPane = PaneDiffView /\ focused' /\ ~fileList'.focused
        /\ \E m \in inflight :
              /\ m.type = "FileSelectMsg"
              /\ inflight' = (inflight \ {m}) \cup {[type |-> "loadDiff", path |-> m.file.Path, repo |-> app.repo]}

\* C24: with the file list focused and the search input closed, Enter on a
\* file item returns a FileSelectMsg for exactly that file and changes
\* nothing else, and Enter on a header or in an empty list returns no command
\* and changes nothing; when the FileSelectMsg is delivered the application
\* focuses the diff pane and starts the load of the diff of that file's path.
C24_EnterSelects ==
    /\ []((Running /\ Sized /\ app.focusedPane = PaneFileList /\ ~fileList.searching) =>
            AppUpdateKey(app, fileList, DiffViewModel, "enter") =
                { AppResult(app, fileList, DiffViewModel,
                            IF OnFile(fileList.selected)
                            THEN [type |-> "FileSelectMsg",
                                  file |-> fileList.displayItems[fileList.selected + 1].File]
                            ELSE NoCmd) })
    /\ [][SelectDelivered]_vars

\* The FileSelectMsg of the second file of the list has been delivered
C24_Witness ==
    /\ appLast.msg = "FileSelectMsg"
    /\ app.focusedPane = PaneDiffView
    /\ OnFile(fileList.selected)
    /\ fileList.selected # FirstFileIndex
    /\ [type |-> "loadDiff", path |-> fileList.displayItems[fileList.selected + 1].File.Path,
         repo |-> app.repo] \in inflight

\* The handling of a failed diff load: the error is recorded, and the diff
\* view and the file list are left as they were
LoadFailed ==
    appLast'.msg = "diffErr" =>
        /\ app'.err # NoErr
        /\ appLast'.cmd = "none"
        /\ UNCHANGED <<diff, lines, cursor, offset, viewMode, fileList>>

\* C21: a failed diff load records the error, returns no command, and leaves
\* the diff, the rows, the cursor and the view mode of the diff view and the
\* file list unchanged; after a successful diff load no error is recorded and
\* the diff view shows the parsed diff of the loaded text.
C21_DiffLoadFailure ==
    /\ [][LoadFailed]_vars
    /\ [](appLast.msg = "diffLoaded" =>
            /\ app.err = NoErr
            /\ parseDiff(diffText).res = "ok"
            /\ diff = parseDiff(diffText).diff
            /\ lines = convertToSideBySide(diff).rows)

\* A diff has been loaded while the error of a failed load was recorded
C21_Witness ==
    /\ appLast.msg = "diffLoaded"
    /\ appLast.errBefore = "diff"
    /\ app.err = NoErr
    /\ lines # <<>>

\* ---------------------------------------------------------------------------
\* The order of the rows of a hunk

\* Line i of the hunk is a changed line; row k holds line i
IsChange(i) == HunkLines[i].Type \in {DiffLineDeletion, DiffLineAddition}
HoldsLine(k, i) ==
    IF HunkLines[i].Type = DiffLineAddition
    THEN lines[k].NewType = DiffLineAddition /\ lines[k].NewContent = HunkLines[i].Content
    ELSE lines[k].OldType = HunkLines[i].Type /\ lines[k].OldContent = HunkLines[i].Content

EachFileOnce(items, fs) ==
    /\ Cardinality({ k \in 1..Len(items) : ~items[k].IsHeader }) = Len(fs)
    /\ \A i \in 1..Len(fs) :
          Cardinality({ k \in 1..Len(items) : ~items[k].IsHeader /\ items[k].File = fs[i] })
              = Cardinality({ j \in 1..Len(fs) : fs[j] = fs[i] })

\* A non-empty list starts with a header, and every header has a file item behind it
HeadersLead(items) ==
    items # <<>> =>
        /\ items[1].IsHeader
        /\ \A k \in 1..Len(items) : items[k].IsHeader => (k < Len(items) /\ ~items[k + 1].IsHeader)

\* C32: for the files and the query of every reachable file list and for each
\* of the three view modes, every display list the builder can return holds
\* each file handed to it exactly once as a file item; in Folder and Type mode
\* a non-empty list starts with a header, every header is followed at once by
\* a file item, and no two headers are adjacent. The display list the file
\* list holds has the same shape.
C32_DisplayListShape ==
    /\ \A mode \in {ViewFolder, ViewType, ViewRaw} :
          \A fs \in Filtered(fileList) :
              \A items \in Build(mode, fs) :
                  /\ EachFileOnce(items, fs)
                  /\ mode # ViewRaw => HeadersLead(items)
    /\ \E fs \in Filtered(fileList) : EachFileOnce(fileList.displayItems, fs)
    /\ fileList.viewMode # ViewRaw => HeadersLead(fileList.displayItems)

\* A filtered list of two groups is shown
C32_Witness ==
    /\ fileList.searchQuery # <<>>
    /\ fileList.viewMode # ViewRaw
    /\ Cardinality({ k \in 1..Len(fileList.displayItems) : fileList.displayItems[k].IsHeader }) = 2
    /\ Len(fileList.displayItems) = 4

\* ---------------------------------------------------------------------------
\* The indices of the file list

\* C33: in every reachable state of the file list, after any sequence of
\* SetFiles, SetSize and key events, cursor >= 0 and offset >= 0, and
\* cursor < len(displayItems) whenever the display list is not empty; this
\* includes Up, Down and PageDown pressed while the display list is empty.
C33_FileListIndices ==
    /\ fileList.cursor >= 0
    /\ fileList.offset >= 0
    /\ fileList.displayItems # <<>> => fileList.cursor < Len(fileList.displayItems)

\* ---------------------------------------------------------------------------
\* The indices of the diff view

\* The last operation was a navigation key, a view-mode key, a JumpToLine
\* with an index among the rows
AfterNavKey == ret.op = "key" /\ ret.out \in NavKeys
AfterModeKey == ret.op = "key" /\ ret.out \in ModeKeys
AfterJump == ret.op = "jumpTo" /\ ret.out >= 0 /\ ret.out < Len(lines)

\* A JumpToLine with an index outside the rows moves nothing
JumpOutsideIgnored ==
    (ret'.op = "jumpTo" /\ (ret'.out < 0 \/ ret'.out >= Len(lines))) =>
        UNCHANGED <<diff, lines, viewMode, offset, cursor, height, focused>>

\* C34: after any sequence of SetDiff, Clear, JumpToLine and key events,
\* 0 <= cursor <= max(len(rows) - 1, 0) and offset >= 0; after SetDiff and
\* after every view-mode switch cursor and offset are 0; a JumpToLine with an
\* index outside the rows changes nothing.
C34_DiffViewIndices ==
    /\ [](/\ cursor >= 0
          /\ cursor <= Max(Len(lines) - 1, 0)
          /\ offset >= 0
          /\ (ret.op = "set" \/ AfterModeKey) => (cursor = 0 /\ offset = 0))
    /\ [][JumpOutsideIgnored]_vars

\* The rows the pane draws
DrawnRows == View(diff, lines, viewMode, offset, height, cursor, focused)

\* C35: at a fixed pane size, after every navigation key and after every
\* JumpToLine with an index among the rows, in each of the three view modes,
\* offset <= cursor < offset + visibleLines, and when there are rows the row
\* of the cursor is one of the rows the pane draws.
C35_CursorVisible ==
    (AfterNavKey \/ AfterJump) =>
        /\ offset <= cursor
        /\ cursor < offset + visibleLines(height)
        /\ lines # <<>> => \E k \in 1..Len(DrawnRows) : DrawnRows[k].origIdx = cursor

\* The cursor has been moved to the last of five or more rows in a pane of
\* fewer visible rows that shows one side only
C35_Witness ==
    /\ AfterNavKey
    /\ viewMode # ViewBoth
    /\ Len(lines) >= 5
    /\ cursor = Len(lines) - 1
    /\ offset > 0

\* ---------------------------------------------------------------------------
\* The focus of the application

\* The keys of the key map, and the search key
AnyKey == AppKeys \cup NavKeys \cup ModeKeys

\* C36: in every reachable state of the application exactly one pane is
\* focused and it is the one focusedPane names; the search input of the file
\* list is open only while the file list is focused; and on every key the pane
\* that is not focused stays as it is: its own Update changes nothing, and the
\* Update of the application changes at most its focused flag.
C36_FocusInvariant ==
    /\ fileList.focused <=> app.focusedPane = PaneFileList
    /\ focused <=> app.focusedPane = PaneDiffView
    /\ app.focusedPane \in {PaneFileList, PaneDiffView}
    /\ fileList.searching => fileList.focused
    /\ \A key \in AnyKey :
          /\ ~fileList.focused => flUpdate(fileList, key) = { Result(fileList, NoCmd) }
          /\ ~focused => dvUpdate(DiffViewModel, key) = DiffViewModel
          /\ \A r \in AppUpdateKey(app, fileList, DiffViewModel, key) :
                /\ ~fileList.focused => [r.fl EXCEPT !.focused = FALSE] = fileList
                /\ ~focused => [r.dv EXCEPT !.focused = FALSE] = DiffViewModel

\* A key has moved the cursor of the focused diff pane, beside a file list
\* that holds files and is not focused
C36_Witness ==
    /\ appLast.msg = "key"
    /\ appLast.paneBefore = PaneDiffView
    /\ app.focusedPane = PaneDiffView
    /\ focused /\ ~fileList.focused
    /\ cursor > 0
    /\ fileList.displayItems # <<>>

\* ---------------------------------------------------------------------------
\* The diff that is shown

\* No selection and no load is waiting to be delivered
NothingPending == \A m \in inflight : m.type \notin {"filesLoaded", "FileSelectMsg", "loadDiff"}

\* C37: whatever the order in which the results of the diff loads are
\* delivered, once no load is pending the diff view shows the diff of the file
\* whose load was requested last.
C37_LastRequestedShown ==
    (NothingPending /\ appLast.requested # <<>>) =>
        /\ ~diff.nil
        /\ diff.NewPath = appLast.requested

\* The file item the file list shows as selected
SelectedFile == fileList.displayItems[fileList.selected + 1].File

\* C38: when the file list has been loaded with at least one file, the diff
\* load the application starts is the load of the path of the file the file
\* list shows as selected, the first file item of the Folder grouping.
C38_AutoLoadIsSelected ==
    (appLast.msg = "filesLoaded" /\ app.files # <<>>) =>
        /\ OnFile(fileList.selected)
        /\ fileList.selected = FirstFileIndex
        /\ [type |-> "loadDiff", path |-> SelectedFile.Path, repo |-> app.repo] \in inflight
        /\ appLast.requested = SelectedFile.Path

====
